---- MODULE Spec2Model ----
(***************************************************************************)
(* Exchange connectivity core of the adaptive grid trading bot:            *)
(*   - OMS: order state machine, order registry (src/oms/order_manager.py) *)
(*   - reconciler (src/oms/order_tracker.py)                               *)
(*   - token-bucket rate limiter (src/exchange/rate_limiter.py)            *)
(*   - retry policy (src/utils/retry.py) around the REST gateway           *)
(*   - WebSocket fan-in (src/exchange/websocket_manager.py, parser)        *)
(* Each subsystem has its own specification over the shared variables.     *)
(***************************************************************************)
EXTENDS Integers, Sequences, FiniteSets, TLC

VARIABLES
    orders,        \* OrderManager._orders: order_id -> Order (NoOrder when absent)
    byClient,      \* OrderManager._orders_by_client_id: client_order_id -> order_id
    nCallbacks,    \* Len(OrderManager._order_callbacks)
    throwers,      \* positions in _order_callbacks of the callbacks that raise when called
    lastOp,        \* the last OMS / tracker operation: arguments, outcome, callbacks run
    venue,         \* the exchange's own order book: order_id -> Order (NoOrder when unknown)
    cancelSent,    \* order ids the last cancel_stray_orders call sent a cancel for
    rec,           \* the reconcile_orders call in progress (or the last one finished)
    delivery,      \* one order's REST acknowledgement and WebSocket update reaching update_order
    limiter,       \* RateLimiter: its three RequestBuckets and _request_count
    acq,           \* the acquire() calls in progress, one per caller
    gw,            \* BinanceGateway.client and the retry-wrapped REST call in progress
    ws,            \* WebSocketManager: _running, registry, reconnect delay, loop position
    feed,          \* frames the market socket delivered and the callback invocations made
    user,          \* the user-data stream: listen key, _user_data_loop, keepalive task
    named,         \* the market task started by _restart_market_data_loop, and the last API call
    sym            \* one symbol taken through denormalize_symbol and normalize_symbol

omsVars == <<orders, byClient, nCallbacks, throwers>>
trkVars == <<venue, cancelSent, rec>>
registryVars == <<orders, byClient, nCallbacks, throwers, lastOp, venue, cancelSent, rec,
                  delivery>>
restVars == <<limiter, acq, gw>>
wsVars == <<ws, feed, user, named>>
vars == <<orders, byClient, nCallbacks, throwers, lastOp, venue, cancelSent, rec, delivery,
          limiter, acq, gw, ws, feed, user, named, sym>>

----------------------------------------------------------------------------
(* Bounds and input domains *)

MaxCallbacks == 2

OrderIds == {"777", "778"}
ClientIds == {"cA", "cB"}
Symbols == {"ETH/USDT", "BTC/USDT"}

NONE == "NONE"

\* an absent dictionary entry (dict.get(...) returning None)
NoOrder == [order_id |-> NONE]

----------------------------------------------------------------------------
(* models.py: OrderStatus *)

OrderStatus ==
    {"PENDING_NEW", "NEW", "PARTIALLY_FILLED", "FILLED",
     "PENDING_CANCEL", "CANCELED", "REJECTED", "EXPIRED"}

(* models.py: Order (the fields the OMS reads) *)
Order == [order_id : OrderIds, client_order_id : ClientIds,
          symbol : Symbols, status : OrderStatus]

(* the orders an operation may be handed: ids, client ids, symbols and statuses *)
OrdersOf(clients, symbols, statuses) ==
    [order_id : OrderIds, client_order_id : clients,
     symbol : symbols, status : statuses]

----------------------------------------------------------------------------
(* order_manager.py: OrderStateMachine *)

VALID_TRANSITIONS ==
    [s \in OrderStatus |->
        CASE s = "PENDING_NEW"      -> {"NEW", "REJECTED"}
          [] s = "NEW"              -> {"PARTIALLY_FILLED", "FILLED", "PENDING_CANCEL",
                                        "CANCELED", "EXPIRED"}
          [] s = "PARTIALLY_FILLED" -> {"FILLED", "PENDING_CANCEL", "CANCELED"}
          [] s = "PENDING_CANCEL"   -> {"CANCELED"}
          [] OTHER                  -> {}]

can_transition_permissive(from_status, to_status) ==
    to_status \in VALID_TRANSITIONS[from_status] \/ to_status = "NEW"

can_transition(from_status, to_status) ==
    to_status \in VALID_TRANSITIONS[from_status]

is_terminal_state(status) ==
    status \in {"FILLED", "CANCELED", "REJECTED", "EXPIRED"}

(* is_active_state counting the pending statuses as active *)
is_active_state_with_pending(status) ==
    status \in {"PENDING_NEW", "NEW", "PARTIALLY_FILLED", "PENDING_CANCEL"}

is_active_state(status) ==
    status \in {"NEW", "PARTIALLY_FILLED"}

----------------------------------------------------------------------------
(* order_manager.py: OrderManager.  A registry value is                    *)
(*   [orders, byClient, result, emitted]                                   *)
(* result is "ok" or the exception the call raised; emitted is the list of *)
(* <<callback index, order_id>> invocations _emit_callback made.           *)

Registry(o, c) == [orders |-> o, byClient |-> c, result |-> "ok", emitted |-> <<>>]

(* _emit_callback without its try/except: the first callback that raises  *)
(* ends the loop.                                                           *)
_emit_callback_unguarded(n, order) ==
    LET raising == {i \in throwers : i <= n}
        last == IF raising = {} THEN n
                ELSE CHOOSE i \in raising : \A j \in raising : i <= j
    IN  [i \in 1..last |-> <<i, order.order_id>>]

(* "for callback in self._order_callbacks: try: callback(order) except      *)
(* Exception: log": every callback is called, in list order, whether or not *)
(* an earlier one raised (throwers), and nothing is raised to the caller.   *)
_emit_callback(n, order) ==
    [i \in 1..n |-> <<i, order.order_id>>]

(* add_order storing the record and running the callbacks before it looks  *)
(* for the id                                                               *)
add_order_check_late(reg, n, order) ==
    LET written == [reg EXCEPT
                      !.orders = [@ EXCEPT ![order.order_id] = order],
                      !.byClient = [@ EXCEPT ![order.client_order_id] = order.order_id],
                      !.result = "ok",
                      !.emitted = @ \o _emit_callback(n, order)]
    IN  IF reg.orders[order.order_id] # NoOrder
        THEN [written EXCEPT !.result = "AlreadyExists"]
        ELSE written

add_order(reg, n, order) ==
    IF reg.orders[order.order_id] # NoOrder
    THEN [reg EXCEPT !.result = "AlreadyExists"]
    ELSE [reg EXCEPT
            !.orders = [@ EXCEPT ![order.order_id] = order],
            !.byClient = [@ EXCEPT ![order.client_order_id] = order.order_id],
            !.result = "ok",
            !.emitted = @ \o _emit_callback(n, order)]

update_order_validate_late(reg, n, order_update) ==
    IF reg.orders[order_update.order_id] = NoOrder
    THEN add_order(reg, n, order_update)
    ELSE LET old_status == reg.orders[order_update.order_id].status
             new_status == order_update.status
             written == [reg EXCEPT
                           !.orders = [@ EXCEPT ![order_update.order_id] = order_update],
                           !.result = "ok",
                           !.emitted = @ \o _emit_callback(n, order_update)]
         IN  IF old_status # new_status /\ ~can_transition(old_status, new_status)
             THEN [written EXCEPT !.result = "InvalidTransition"]
             ELSE written

(* update_order storing the update without looking at the table *)
update_order_unvalidated(reg, n, order_update) ==
    IF reg.orders[order_update.order_id] = NoOrder
    THEN add_order(reg, n, order_update)
    ELSE [reg EXCEPT
            !.orders = [@ EXCEPT ![order_update.order_id] = order_update],
            !.result = "ok",
            !.emitted = @ \o _emit_callback(n, order_update)]

(* update_order validating every update, a same-status one included *)
update_order_validate_always(reg, n, order_update) ==
    IF reg.orders[order_update.order_id] = NoOrder
    THEN add_order(reg, n, order_update)
    ELSE LET old_status == reg.orders[order_update.order_id].status
             new_status == order_update.status
         IN  IF ~can_transition(old_status, new_status)
             THEN [reg EXCEPT !.result = "InvalidTransition"]
             ELSE [reg EXCEPT
                     !.orders = [@ EXCEPT ![order_update.order_id] = order_update],
                     !.result = "ok",
                     !.emitted = @ \o _emit_callback(n, order_update)]

(* update_order refusing an id it does not track *)
update_order_unknown_raises(reg, n, order_update) ==
    IF reg.orders[order_update.order_id] = NoOrder
    THEN [reg EXCEPT !.result = "NotFound"]
    ELSE LET old_status == reg.orders[order_update.order_id].status
             new_status == order_update.status
         IN  IF old_status # new_status /\ ~can_transition(old_status, new_status)
             THEN [reg EXCEPT !.result = "InvalidTransition"]
             ELSE [reg EXCEPT
                     !.orders = [@ EXCEPT ![order_update.order_id] = order_update],
                     !.result = "ok",
                     !.emitted = @ \o _emit_callback(n, order_update)]

update_order(reg, n, order_update) ==
    IF reg.orders[order_update.order_id] = NoOrder
    THEN add_order(reg, n, order_update)
    ELSE LET old_status == reg.orders[order_update.order_id].status
             new_status == order_update.status
         IN  IF old_status # new_status /\ ~can_transition(old_status, new_status)
             THEN [reg EXCEPT !.result = "InvalidTransition"]
             ELSE [reg EXCEPT
                     !.orders = [@ EXCEPT ![order_update.order_id] = order_update],
                     !.result = "ok",
                     !.emitted = @ \o _emit_callback(n, order_update)]

get_order(o, order_id) == o[order_id]

get_order_by_client_id(o, c, client_order_id) ==
    IF c[client_order_id] # NONE THEN o[c[client_order_id]] ELSE NoOrder

get_open_orders(o, symbol) ==
    {o[id] : id \in {i \in OrderIds :
                        /\ o[i] # NoOrder
                        /\ is_active_state(o[i].status)
                        /\ (symbol = NONE \/ o[i].symbol = symbol)}}

get_all_orders(o, symbol) ==
    {o[id] : id \in {i \in OrderIds :
                        /\ o[i] # NoOrder
                        /\ (symbol = NONE \/ o[i].symbol = symbol)}}

remove_order(reg, order_id) ==
    IF reg.orders[order_id] = NoOrder
    THEN [reg EXCEPT !.result = "NotFound"]
    ELSE [reg EXCEPT
            !.orders = [@ EXCEPT ![order_id] = NoOrder],
            !.byClient = [@ EXCEPT ![reg.orders[order_id].client_order_id] = NONE],
            !.result = "ok"]

order_count(o) == Cardinality({i \in OrderIds : o[i] # NoOrder})

----------------------------------------------------------------------------
(* rate_limiter.py: RequestBucket.  Time is counted in ticks; the unit is   *)
(* chosen so that a bucket refills one token per tick, and the capacities  *)
(* are scaled down with it.  elapsed is now - last_refill, kept only up to *)
(* the point where the bucket is full anyway.  uptime is time.time() -     *)
(* _start_time, kept only up to MaxUptime ticks.                            *)

RequestCapacity == 2
WeightCapacity == 3
OrderCapacity == 1
MaxAcquires == 2
MaxBurst == 4
MaxUptime == 3
HeavyWeightCapacity == 31

max_wait == 30

Min(a, b) == IF a <= b THEN a ELSE b

Max(S) == CHOOSE x \in S : \A y \in S : y <= x

RequestBucket(capacity) == [capacity |-> capacity, tokens |-> capacity, elapsed |-> 0]

refill(bucket) ==
    [bucket EXCEPT !.tokens = Min(bucket.capacity, @ + bucket.elapsed), !.elapsed = 0]

(* consume handing out tokens without taking them from the bucket *)
consume_free(bucket, n) ==
    LET b == refill(bucket)
    IN  IF b.tokens >= n
        THEN [bucket |-> b, ok |-> TRUE]
        ELSE [bucket |-> b, ok |-> FALSE]

consume(bucket, n) ==
    LET b == refill(bucket)
    IN  IF b.tokens >= n
        THEN [bucket |-> [b EXCEPT !.tokens = @ - n], ok |-> TRUE]
        ELSE [bucket |-> b, ok |-> FALSE]

wait_time(bucket, n) ==
    LET b == refill(bucket)
    IN  IF b.tokens >= n THEN 0 ELSE n - b.tokens

(* rate_limiter.py: RateLimiter.__init__ *)
RateLimiter ==
    [request_bucket |-> RequestBucket(RequestCapacity),
     weight_bucket |-> RequestBucket(WeightCapacity),
     order_bucket |-> RequestBucket(OrderCapacity),
     request_count |-> 0,
     uptime |-> 0]

(* a turn whose sleep is the largest wait itself, without the clamp *)
acquire_attempt_unclamped(lim, weight, is_order) ==
    LET c1 == consume(lim.request_bucket, 1)
        c2 == consume(lim.weight_bucket, weight)
        c3 == IF is_order THEN consume(lim.order_bucket, 1)
              ELSE [bucket |-> lim.order_bucket, ok |-> TRUE]
        wait_times ==
            (IF c1.ok THEN {} ELSE {wait_time(c1.bucket, 1)})
            \cup (IF c2.ok THEN {} ELSE {wait_time(c2.bucket, weight)})
            \cup (IF c3.ok THEN {} ELSE {wait_time(c3.bucket, 1)})
        passed == wait_times = {}
    IN  [limiter |-> [request_bucket |-> c1.bucket,
                      weight_bucket |-> c2.bucket,
                      order_bucket |-> c3.bucket,
                      request_count |-> IF passed THEN lim.request_count + 1
                                        ELSE lim.request_count,
                      uptime |-> lim.uptime],
         passed |-> passed,
         wait_time |-> IF passed THEN 0 ELSE Max(wait_times),
         taken |-> [request |-> IF c1.ok THEN 1 ELSE 0,
                    weight |-> IF c2.ok THEN weight ELSE 0,
                    order |-> IF is_order /\ c3.ok THEN 1 ELSE 0]]

(* One turn of the "while True" of RateLimiter.acquire: the three consumes  *)
(* in turn, each on its own bucket, then either the return or the sleep.    *)
(* taken is what the turn removed from each bucket.                         *)
acquire_attempt(lim, weight, is_order) ==
    LET c1 == consume(lim.request_bucket, 1)
        c2 == consume(lim.weight_bucket, weight)
        c3 == IF is_order THEN consume(lim.order_bucket, 1)
              ELSE [bucket |-> lim.order_bucket, ok |-> TRUE]
        wait_times ==
            (IF c1.ok THEN {} ELSE {wait_time(c1.bucket, 1)})
            \cup (IF c2.ok THEN {} ELSE {wait_time(c2.bucket, weight)})
            \cup (IF c3.ok THEN {} ELSE {wait_time(c3.bucket, 1)})
        passed == wait_times = {}
    IN  [limiter |-> [request_bucket |-> c1.bucket,
                      weight_bucket |-> c2.bucket,
                      order_bucket |-> c3.bucket,
                      request_count |-> IF passed THEN lim.request_count + 1
                                        ELSE lim.request_count,
                      uptime |-> lim.uptime],
         passed |-> passed,
         wait_time |-> IF passed THEN 0 ELSE Min(Max(wait_times), max_wait),
         taken |-> [request |-> IF c1.ok THEN 1 ELSE 0,
                    weight |-> IF c2.ok THEN weight ELSE 0,
                    order |-> IF is_order /\ c3.ok THEN 1 ELSE 0]]

Callers == {"a", "b"}

NoTokens == [request |-> 0, weight |-> 0, order |-> 0]

AcquireIdle ==
    [pc |-> "idle", weight |-> 1, is_order |-> FALSE, sleep |-> 0,
     denied |-> FALSE, taken |-> NoTokens, total |-> NoTokens]

----------------------------------------------------------------------------
(* utils/retry.py and binance_gateway.py: the retry-wrapped REST methods *)

max_attempts == 3
backoff_base == 2

BINANCE_TRANSIENT_ERRORS == {-1001, -1003, -1021, -1022}

BINANCE_PERMANENT_ERRORS ==
    {-1100, -1102, -2010, -2011, -4001, -4003, -4004, -4131, -4132}

(* the venue's answers to a wire call: a result, an API error with a code   *)
(* and a message, or a failure of the HTTP transport                        *)
ErrorCodes ==
    {-1001, -1003, -1021, -1022, -1100, -1102, -2010, -2011, -4001, -4003, -4004,
     -4131, -4132, -9999}

(* no answer: the request did not go out *)
NoResponse == [kind |-> "none", code |-> 0, insufficient_balance |-> FALSE]

WireResponses ==
    {[kind |-> "ok", code |-> 0, insufficient_balance |-> FALSE],
     [kind |-> "network_error", code |-> 0, insufficient_balance |-> FALSE]}
    \cup [kind : {"api_error"}, code : ErrorCodes, insufficient_balance : {FALSE}]
    \cup [kind : {"api_error"}, code : {-1001, -1003, -1100, -2010, -9999},
           insufficient_balance : {TRUE}]

_map_exception(error_code, insufficient_balance) ==
    IF error_code = -1003 THEN "RateLimitError"
    ELSE IF error_code \in {-2010, -4001, -4003, -4004, -4131, -4132}
         THEN "InvalidOrderError"
    ELSE IF insufficient_balance THEN "InsufficientBalanceError"
    ELSE IF error_code \in BINANCE_TRANSIENT_ERRORS THEN "TransientError"
    ELSE IF error_code \in BINANCE_PERMANENT_ERRORS THEN "PermanentError"
    ELSE "ExchangeAPIError"

RestOps == {"submit_order", "cancel_order", "get_order_status", "get_open_orders"}

(* gateway.py: OrderType *)
OrderType ==
    {"LIMIT", "MARKET", "STOP_LOSS", "STOP_LOSS_LIMIT", "TAKE_PROFIT", "TAKE_PROFIT_LIMIT"}

(* The arguments the local checks read: the order type and, for each        *)
(* optional argument, whether the caller gave it.                           *)
NoArgs ==
    [order_type |-> NONE, price |-> FALSE, stop_price |-> FALSE,
     order_id |-> FALSE, client_order_id |-> FALSE]

RestArgs(op) ==
    CASE op = "submit_order" ->
           [order_type : OrderType, price : BOOLEAN, stop_price : BOOLEAN,
            order_id : {FALSE}, client_order_id : {FALSE}]
      [] op \in {"cancel_order", "get_order_status"} ->
           [order_type : {NONE}, price : {FALSE}, stop_price : {FALSE},
            order_id : BOOLEAN, client_order_id : BOOLEAN]
      [] OTHER -> {NoArgs}

(* the price check of submit_order made for LIMIT orders only *)
local_checks_limit_only(op, args) ==
    CASE op = "submit_order" ->
           /\ (args.order_type = "LIMIT" => args.price)
           /\ (args.order_type \in {"STOP_LOSS", "STOP_LOSS_LIMIT",
                                     "TAKE_PROFIT", "TAKE_PROFIT_LIMIT"}
                 => args.stop_price)
      [] op \in {"cancel_order", "get_order_status"} ->
           args.order_id \/ args.client_order_id
      [] OTHER -> TRUE

(* The checks a REST method makes on its arguments before the wire call:    *)
(* submit_order's "if price is None" and "if stop_price is None",           *)
(* cancel_order's and get_order_status's "if not order_id and not           *)
(* client_order_id".  TRUE when no InvalidOrderError is raised.             *)
local_checks(op, args) ==
    CASE op = "submit_order" ->
           /\ (args.order_type \in {"LIMIT", "STOP_LOSS_LIMIT", "TAKE_PROFIT_LIMIT"}
                 => args.price)
           /\ (args.order_type \in {"STOP_LOSS", "STOP_LOSS_LIMIT",
                                     "TAKE_PROFIT", "TAKE_PROFIT_LIMIT"}
                 => args.stop_price)
      [] op \in {"cancel_order", "get_order_status"} ->
           args.order_id \/ args.client_order_id
      [] OTHER -> TRUE

(* One run of a REST method's body: the client check, the local checks of   *)
(* the arguments, the wire call and the mapping of a BinanceAPIException.   *)
(* wire says whether the request went out.                                  *)
rest_method(client, op, valid, response) ==
    IF ~client THEN [wire |-> FALSE, outcome |-> "ConnectionError"]
    ELSE IF op # "get_open_orders" /\ ~valid
         THEN [wire |-> FALSE, outcome |-> "InvalidOrderError"]
    ELSE [wire |-> TRUE,
          outcome |-> IF response.kind = "ok" THEN "ok"
                      ELSE IF response.kind = "api_error"
                           THEN _map_exception(response.code,
                                               response.insufficient_balance)
                      ELSE "NetworkError"]

is_retried_rate_limit(exception) ==
    exception \in {"TransientError", "RateLimitError"}

(* "except exceptions as e" with exceptions = (TransientError,) *)
is_retried(exception) == exception = "TransientError"

GatewayIdle ==
    [client |-> FALSE, pc |-> "idle", op |-> NONE, args |-> NoArgs, connected |-> FALSE,
     valid |-> TRUE, attempt |-> 0, outcomes |-> <<>>, wire |-> 0, delay |-> 0,
     error |-> NONE, response |-> NoResponse, accepted |-> 0]

(* One turn of "for attempt in range(max_attempts)" of the retry wrapper *)
retry_attempt(g, attempt, response) ==
    LET r == rest_method(g.client, g.op, g.valid, response)
        g1 == [g EXCEPT !.attempt = attempt,
                        !.outcomes = Append(@, r.outcome),
                        !.wire = IF r.wire THEN @ + 1 ELSE @,
                        !.response = IF r.wire THEN response ELSE NoResponse]
    IN  IF r.outcome = "ok" THEN [g1 EXCEPT !.pc = "returned"]
        ELSE IF is_retried(r.outcome) /\ attempt # max_attempts - 1
             THEN [g1 EXCEPT !.pc = "sleeping", !.delay = backoff_base ^ attempt]
        ELSE [g1 EXCEPT !.pc = "raised", !.error = r.outcome]

(* The venue's side of futures_create_order: an order is placed          *)
(* when the request went out and the venue answered with the order, or when *)
(* the venue placed it (accepts) and the answer was lost on the way or was  *)
(* -1001, the venue's internal error, one of BINANCE_TRANSIENT_ERRORS.      *)
(* params carries no newClientOrderId unless the caller gave one, and       *)
(* nothing in the request ties it to an earlier attempt.                    *)
futures_create_order(g, response, accepts) ==
    IF /\ g.op = "submit_order"
       /\ g.response # NoResponse
       /\ \/ response.kind = "ok"
          \/ /\ accepts
             /\ \/ response.kind = "network_error"
                \/ /\ response.kind = "api_error"
                   /\ response.code = -1001
    THEN [g EXCEPT !.accepted = @ + 1]
    ELSE g

----------------------------------------------------------------------------
(* websocket_manager.py and websocket_parser.py: the market-data stream *)

INITIAL_RECONNECT_DELAY == 1
MAX_RECONNECT_DELAY == 120
RECONNECT_BACKOFF_FACTOR == 2

MaxReconnections == 9
MaxFrames == 2

None == [type |-> "None"]

KlineStreams == {"ethusdt@kline_1m"}
TradeStreams == {"ethusdt@trade"}
StreamNames == KlineStreams \cup TradeStreams

(* exchange_config.py: _normalize_binance_symbol on the venue symbols used *)
_normalize_binance_symbol(symbol) ==
    CASE symbol = "ETHUSDT" -> "ETH/USDT"
      [] symbol = "BTCUSDT" -> "BTC/USDT"
      [] OTHER -> symbol

(* exchange_config.py on symbols as sequences of characters.  A word is    *)
(* written letter by letter; "/" and "-" are characters like the others.    *)
BTC == <<"B", "T", "C">>
ETH == <<"E", "T", "H">>
BNB == <<"B", "N", "B">>
DAI == <<"D", "A", "I">>
EUR == <<"E", "U", "R">>
USDT == <<"U", "S", "D", "T">>
BUSD == <<"B", "U", "S", "D">>
USDC == <<"U", "S", "D", "C">>
DOGE == <<"D", "O", "G", "E">>
SHIB == <<"S", "H", "I", "B">>
SOL == <<"S", "O", "L">>

ExchangeType == {"binance", "bybit", "okx"}

(* ExchangeConfig.symbol_separator of BINANCE_CONFIG, BYBIT_CONFIG, OKX_CONFIG *)
symbol_separator(exchange_type) ==
    IF exchange_type = "okx" THEN <<"-">> ELSE <<>>

quote_currencies == <<USDT, BUSD, USDC, BTC, ETH, BNB, DAI>>

endswith(symbol, suffix) ==
    /\ Len(suffix) <= Len(symbol)
    /\ SubSeq(symbol, Len(symbol) - Len(suffix) + 1, Len(symbol)) = suffix

(* the first quote currency of the list the symbol ends with; 0 when none *)
first_quote(symbol) ==
    IF \E i \in 1..Len(quote_currencies) : endswith(symbol, quote_currencies[i])
    THEN CHOOSE i \in 1..Len(quote_currencies) :
            /\ endswith(symbol, quote_currencies[i])
            /\ \A j \in 1..(i - 1) : ~endswith(symbol, quote_currencies[j])
    ELSE 0

(* _normalize_binance_symbol, character by character: the base is what is   *)
(* left of the first listed quote currency the symbol ends with; without    *)
(* one, the last four characters are the quote when the symbol is longer    *)
(* than six, else the last three.  (The ETHUSDT and BTCUSDT entries of the  *)
(* table above are values of this function.)                                *)
_normalize_binance_symbol_seq(symbol) ==
    LET q == first_quote(symbol)
        n == IF q # 0 THEN Len(quote_currencies[q])
             ELSE IF Len(symbol) > 6 THEN 4 ELSE 3
    IN  SubSeq(symbol, 1, Len(symbol) - n) \o <<"/">>
        \o SubSeq(symbol, Len(symbol) - n + 1, Len(symbol))

(* str.replace(separator, "/") for a separator of one character *)
replace(symbol, separator) ==
    [i \in 1..Len(symbol) |-> IF <<symbol[i]>> = separator THEN "/" ELSE symbol[i]]

NoSymbol == [kind |-> "none", value |-> <<>>]

normalize_symbol(symbol, exchange_type) ==
    IF symbol_separator(exchange_type) # <<>>
    THEN [kind |-> "ok", value |-> replace(symbol, symbol_separator(exchange_type))]
    ELSE IF exchange_type = "binance"
         THEN [kind |-> "ok", value |-> _normalize_binance_symbol_seq(symbol)]
         ELSE [kind |-> "NotImplementedError", value |-> <<>>]

(* denormalize_symbol for a symbol with at most one "/" *)
denormalize_symbol(symbol, exchange_type) ==
    IF \E i \in 1..Len(symbol) : symbol[i] = "/"
    THEN LET k == CHOOSE i \in 1..Len(symbol) : symbol[i] = "/"
         IN  SubSeq(symbol, 1, k - 1) \o symbol_separator(exchange_type)
             \o SubSeq(symbol, k + 1, Len(symbol))
    ELSE symbol

(* canonical BASE/QUOTE symbols *)
Bases == {BTC, ETH, BNB, SOL, DOGE, SHIB, USDT}
Quotes == {USDT, BUSD, USDC, BTC, ETH, DAI, EUR}
CanonicalSymbols ==
    {base \o <<"/">> \o quote : base \in Bases, quote \in Quotes} \ 
    {q \o <<"/">> \o q : q \in Quotes}

SymbolIdle ==
    [symbol |-> <<>>, exchange_type |-> "binance", pc |-> "idle",
     wire |-> <<>>, result |-> NoSymbol]

(* the payloads the venue sends: e is the event type, s the venue symbol,   *)
(* k.t the open time, k.x the closed flag; complete is false when a field   *)
(* of the payload is missing or unreadable                                  *)
KlinePayloads ==
    [e : {"kline"}, s : {"ETHUSDT"}, t : 1..2, x : BOOLEAN, complete : BOOLEAN]

TradePayloads ==
    [e : {"trade"}, s : {"ETHUSDT"}, t : {1}, x : {FALSE}, complete : {TRUE}]

(* inbound frames: {"stream": ..., "data": ...} or the bare payload *)
MarketFrames ==
    [framing : {"combined"}, stream : KlineStreams, data : KlinePayloads]
    \cup [framing : {"combined"}, stream : TradeStreams, data : TradePayloads]
    \cup [framing : {"single"}, stream : {NONE},
          data : {d \in KlinePayloads : d.x /\ d.complete /\ d.t = 1}]
    \cup [framing : {"invalid_json"}, stream : {NONE}, data : {None}]

parse_kline_open_too(data) ==
    IF ~data.complete THEN None
    ELSE [type |-> "Candle", symbol |-> _normalize_binance_symbol(data.s),
          interval |-> "1m", open_time |-> data.t]

parse_kline(data) ==
    IF ~data.x THEN None
    ELSE IF ~data.complete THEN None
    ELSE [type |-> "Candle", symbol |-> _normalize_binance_symbol(data.s),
          interval |-> "1m", open_time |-> data.t]

parse_trade(data) ==
    IF ~data.complete THEN None
    ELSE [type |-> "Trade", symbol |-> _normalize_binance_symbol(data.s),
          interval |-> NONE, open_time |-> data.t]

(* _handle_market_message: the callback invocations one frame leads to, as  *)
(* a list of [stream, arg]                                                  *)
_handle_market_message(subscriptions, message) ==
    IF message.framing = "invalid_json" THEN <<>>
    ELSE
    LET stream_name == IF message.framing = "combined" THEN message.stream
                       ELSE message.data.e
        stream_data == message.data
        parsed_data == IF stream_name \in KlineStreams THEN parse_kline(stream_data)
                       ELSE IF stream_name \in TradeStreams THEN parse_trade(stream_data)
                       ELSE stream_data
    IN  IF stream_name \in subscriptions /\ parsed_data # None
        THEN <<[stream |-> stream_name, arg |-> parsed_data]>>
        ELSE <<>>

(* a handler without the try/except around the callback and without the    *)
(* last "except Exception"                                                  *)
_handle_market_message_outcome_unguarded(subscriptions, message, throws) ==
    IF message.framing = "invalid_json" THEN "decode_error"
    ELSE IF throws /\ _handle_market_message(subscriptions, message) # <<>>
         THEN "raised"
         ELSE "returned"

(* How _handle_market_message ends for one frame, throws telling whether    *)
(* the callback raises when it is invoked: json.loads fails and the         *)
(* JSONDecodeError handler logs; the callback raises and the handler        *)
(* around it logs; or the method runs to its end.  "raised" is an           *)
(* exception that leaves the method.                                        *)
_handle_market_message_outcome(subscriptions, message, throws) ==
    IF message.framing = "invalid_json" THEN "decode_error"
    ELSE IF throws /\ _handle_market_message(subscriptions, message) # <<>>
         THEN "callback_error"
         ELSE "returned"

(* frames handled as tasks of their own, a later one finishing first *)
deliver_unordered(calls, invoked) == invoked \o calls

(* "async for message in ws: await self._handle_market_message(message)":  *)
(* the handling of a frame, the await of a coroutine callback included, is  *)
(* over before the next frame is taken                                      *)
deliver(calls, invoked) == calls \o invoked

reconnect_delay_uncapped(delay) == delay * RECONNECT_BACKOFF_FACTOR

(* "self._reconnect_delay = min(self._reconnect_delay * FACTOR, MAX)" *)
next_reconnect_delay(delay) ==
    Min(delay * RECONNECT_BACKOFF_FACTOR, MAX_RECONNECT_DELAY)

WebSocketManager ==
    [running |-> FALSE, subscriptions |-> {}, pc |-> "none", is_connected |-> FALSE,
     reconnect_delay |-> INITIAL_RECONNECT_DELAY, reconnections |-> 0,
     failures |-> 0, waited |-> 0, url |-> {}, market_ws |-> "none"]

(* The task _restart_market_data_loop starts and names "market_data_loop":  *)
(* where its _market_data_loop is and the streams of the URL it is          *)
(* connected to.  op is the manager call made last, cancelled the tasks     *)
(* the last disconnect() found running and cancelled.                       *)
NoTask == [pc |-> "none", url |-> {}, op |-> NONE, cancelled |-> {}]

NoFeed == [frames |-> <<>>, calls |-> <<>>, outcomes |-> <<>>]

LISTEN_KEY_REFRESH_INTERVAL == 1800
\* the venue drops a listen key 60 minutes after its last keepalive
LISTEN_KEY_TTL == 2 * LISTEN_KEY_REFRESH_INTERVAL

MaxUserFailures == 3
MaxExtraUserTasks == 2

(* The user-data stream of the manager: whether a listen key and a user     *)
(* callback are set, where _user_data_loop is (as pc of the market loop),   *)
(* the delay its sleep in progress was given, its failures since its last   *)
(* connect, the drops of its established connections, whether the           *)
(* keepalive task is in its sleep, and the seconds since the venue last     *)
(* saw the listen key created or refreshed (kept up to the venue's TTL).    *)
(* extra and extra_keepalive count the user loops and keepalive tasks that  *)
(* were started while one was still alive.                                  *)
UserStream ==
    [listen_key |-> FALSE, pc |-> "none", waited |-> 0, failures |-> 0, total |-> 0,
     drops |-> 0, keepalive |-> "none", key_age |-> 0, extra |-> 0,
     extra_keepalive |-> 0]

(* WebSocketManager.subscribe_user_data: the key and the callback are       *)
(* stored; on a running manager a user loop and a keepalive task are        *)
(* started, whether or not such tasks are alive already.                    *)
subscribe_user_data(w, u) ==
    IF ~w.running
    THEN [u EXCEPT !.listen_key = TRUE]
    ELSE [u EXCEPT !.listen_key = TRUE,
                   !.pc = IF u.pc = "none" THEN "top" ELSE @,
                   !.extra = IF u.pc = "none" THEN @ ELSE @ + 1,
                   !.keepalive = IF u.keepalive = "none" THEN "sleeping" ELSE @,
                   !.extra_keepalive = IF u.keepalive = "none" THEN @ ELSE @ + 1]

(* WebSocketManager.connect(): nothing when already running; else the flag  *)
(* is set, a market task (which gets no name) is started when the registry  *)
(* holds a stream, and the user loop and the keepalive task when a listen   *)
(* key is set.                                                              *)
connect(w, nm, u) ==
    IF w.running
    THEN [ws |-> w, named |-> [nm EXCEPT !.op = "connect"], user |-> u]
    ELSE [ws |-> [w EXCEPT !.running = TRUE,
                           !.pc = IF w.subscriptions # {} THEN "top" ELSE "none"],
          named |-> [nm EXCEPT !.op = "connect", !.cancelled = {}],
          user |-> IF u.listen_key
                   THEN [u EXCEPT !.pc = "top", !.keepalive = "sleeping"]
                   ELSE u]

(* a disconnect() that cancels the task named "market_data_loop" only *)
disconnect_named_only(w, nm, u) ==
    [ws |-> [w EXCEPT !.running = FALSE, !.is_connected = FALSE,
                      !.market_ws = "none",
                      !.pc = IF w.pc = "connected" /\ w.market_ws = "unnamed"
                             THEN "top" ELSE @,
                      !.url = IF w.market_ws = "unnamed" THEN {} ELSE @],
     named |-> [NoTask EXCEPT !.op = "disconnect",
                              !.cancelled = IF nm.pc # "none" THEN {"named"} ELSE {}],
     user |-> u]

(* WebSocketManager.disconnect(): the flag is cleared, every task of        *)
(* self._tasks is cancelled and awaited, the list is cleared and both       *)
(* sockets are closed.                                                      *)
disconnect(w, nm, u) ==
    [ws |-> [w EXCEPT !.running = FALSE, !.is_connected = FALSE,
                      !.pc = "none", !.waited = 0, !.url = {},
                      !.market_ws = "none"],
     named |-> [NoTask EXCEPT !.op = "disconnect",
                              !.cancelled =
                                  (IF w.pc # "none" THEN {"market"} ELSE {})
                                  \cup (IF nm.pc # "none" THEN {"named"} ELSE {})
                                  \cup (IF u.pc # "none" THEN {"user"} ELSE {})
                                  \cup (IF u.keepalive # "none"
                                        THEN {"keepalive"} ELSE {})],
     user |-> [u EXCEPT !.pc = "none", !.waited = 0, !.keepalive = "none",
                        !.extra = 0, !.extra_keepalive = 0]]

(* _restart_market_data_loop(): the task whose name is "market_data_loop"   *)
(* is cancelled, awaited and removed; the socket self._market_ws refers to  *)
(* is closed, which ends the "async for" of a loop that reads from it; a    *)
(* new task is started and named when the registry holds a stream.          *)
_restart_market_data_loop(w, nm) ==
    [ws |-> [w EXCEPT !.market_ws = "none",
                      !.pc = IF w.pc = "connected" /\ w.market_ws = "unnamed"
                             THEN "top" ELSE @,
                      !.url = IF w.market_ws = "unnamed" THEN {} ELSE @],
     named |-> [nm EXCEPT !.pc = IF w.subscriptions # {} THEN "top" ELSE "none",
                          !.url = {}]]

----------------------------------------------------------------------------
(* Initial state: OrderManager.__init__, nothing on the venue *)

NoOp == [op |-> "init", id |-> NONE, result |-> "ok", emitted |-> <<>>, ret |-> NONE]

(* no notification under way *)
NoDelivery ==
    [order |-> NoOrder, first |-> NONE, count |-> 0, tracked_before |-> FALSE,
     count_before |-> 0, results |-> <<>>, same |-> FALSE]

InitOMS ==
    /\ orders = [i \in OrderIds |-> NoOrder]
    /\ byClient = [c \in ClientIds |-> NONE]
    /\ nCallbacks = 0
    /\ throwers = {}
    /\ delivery = NoDelivery
    /\ lastOp = NoOp

RecIdle ==
    [pc |-> "idle", symbol |-> NONE, exch |-> {}, pending |-> {}, common |-> {},
     tracked |-> {}, attempted |-> {}, error |-> NONE,
     prev |-> "none", unanswered |-> FALSE, disturbed |-> FALSE, changed |-> FALSE,
     report |-> [total_exchange_orders |-> 0, total_local_orders |-> 0,
                 missing_locally |-> 0, missing_on_exchange |-> 0,
                 common_orders |-> 0, updates_applied |-> 0]]

InitVenueEmpty ==
    /\ venue = [i \in OrderIds |-> NoOrder]
    /\ cancelSent = {}
    /\ rec = RecIdle

InitRest ==
    /\ limiter = RateLimiter
    /\ acq = [c \in Callers |-> AcquireIdle]
    /\ gw = GatewayIdle

InitConfig == sym = SymbolIdle

InitWebSocket ==
    /\ InitConfig
    /\ ws = WebSocketManager
    /\ feed = NoFeed
    /\ user = UserStream
    /\ named = NoTask

TypeOK ==
    /\ orders \in [OrderIds -> Order \cup {NoOrder}]
    /\ byClient \in [ClientIds -> OrderIds \cup {NONE}]
    /\ nCallbacks \in 0..MaxCallbacks
    /\ throwers \subseteq 1..nCallbacks

----------------------------------------------------------------------------
(* OMS operations as actions.  lastOp names the call just made, the order  *)
(* id it was about, what it returned or raised, and the callbacks it ran.  *)

Apply(op, id, reg) ==
    /\ orders' = reg.orders
    /\ byClient' = reg.byClient
    /\ lastOp' = [op |-> op, id |-> id, result |-> reg.result, emitted |-> reg.emitted,
                  ret |-> NONE]

(* rec and cancelSent describe the tracker call in progress or just made; *)
(* once the registry is used again they describe nothing any more.  A     *)
(* reconcile_orders suspended in a status query is marked as disturbed.    *)
TrackerCallForgotten ==
    /\ rec' = IF rec.pc = "querying" THEN [rec EXCEPT !.disturbed = TRUE] ELSE RecIdle
    /\ cancelSent' = {}
    /\ delivery' = NoDelivery
    /\ UNCHANGED <<venue, restVars, wsVars, sym>>

RegisterCallback ==
    /\ nCallbacks < MaxCallbacks
    /\ nCallbacks' = nCallbacks + 1
    /\ \E raises \in BOOLEAN :
         throwers' = IF raises THEN throwers \cup {nCallbacks + 1} ELSE throwers
    /\ lastOp' = [NoOp EXCEPT !.op = "register_callback"]
    /\ UNCHANGED <<orders, byClient>>
    /\ TrackerCallForgotten

AddOrderOf(order) ==
    /\ Apply("add_order", order.order_id,
             add_order(Registry(orders, byClient), nCallbacks, order))
    /\ UNCHANGED <<nCallbacks, throwers>>
    /\ TrackerCallForgotten

UpdateOrderOf(order) ==
    /\ Apply("update_order", order.order_id,
             update_order(Registry(orders, byClient), nCallbacks, order))
    /\ UNCHANGED <<nCallbacks, throwers>>
    /\ TrackerCallForgotten

RemoveOrderOf(id) ==
    /\ Apply("remove_order", id, remove_order(Registry(orders, byClient), id))
    /\ UNCHANGED <<nCallbacks, throwers>>
    /\ TrackerCallForgotten

AddOrder(inputs) == \E order \in inputs : AddOrderOf(order)

UpdateOrder(inputs) == \E order \in inputs : UpdateOrderOf(order)

RemoveOrder == \E id \in OrderIds : RemoveOrderOf(id)

(* SpecOMS: every status and symbol, one client id *)
InputsOMS == OrdersOf({"cA"}, Symbols, OrderStatus)

NextOMS ==
    \/ RegisterCallback
    \/ AddOrder(InputsOMS)
    \/ UpdateOrder(InputsOMS)
    \/ RemoveOrder

InitSpecOMS == InitOMS /\ InitVenueEmpty /\ InitRest /\ InitWebSocket

SpecOMS == InitSpecOMS /\ [][NextOMS]_vars

(* The two notifications of one order, the REST acknowledgement of         *)
(* submit_order and the WebSocket user-data update, each handed to          *)
(* update_order, in either order.  delivery keeps which came first, whether *)
(* the id was tracked before, what each call returned and whether the       *)
(* second call left the registry as the first had left it.                  *)
Sources == {"rest", "ws"}

DeliverFirst(order, source) ==
    /\ delivery.count # 1
    /\ LET r == update_order(Registry(orders, byClient), nCallbacks, order)
       IN  /\ Apply("update_order", order.order_id, r)
           /\ delivery' = [order |-> order, first |-> source, count |-> 1,
                           tracked_before |-> orders[order.order_id] # NoOrder,
                           count_before |-> order_count(orders),
                           results |-> <<r.result>>, same |-> FALSE]
    /\ rec' = RecIdle
    /\ cancelSent' = {}
    /\ UNCHANGED <<nCallbacks, throwers, venue, restVars, wsVars, sym>>

DeliverSecond ==
    /\ delivery.count = 1
    /\ LET r == update_order(Registry(orders, byClient), nCallbacks, delivery.order)
       IN  /\ Apply("update_order", delivery.order.order_id, r)
           /\ delivery' = [delivery EXCEPT
                             !.count = 2,
                             !.results = Append(@, r.result),
                             !.same = (r.orders = orders /\ r.byClient = byClient)]
    /\ rec' = RecIdle
    /\ cancelSent' = {}
    /\ UNCHANGED <<nCallbacks, throwers, venue, restVars, wsVars, sym>>

(* SpecDelivery: notifications delivered twice, among removals *)
InputsDelivery ==
    OrdersOf(ClientIds, {"ETH/USDT"}, {"NEW", "PARTIALLY_FILLED", "FILLED", "CANCELED"})

NextDelivery ==
    \/ \E order \in InputsDelivery, source \in Sources : DeliverFirst(order, source)
    \/ DeliverSecond
    \/ RemoveOrder

InitSpecDelivery == InitOMS /\ InitVenueEmpty /\ InitRest /\ InitWebSocket

SpecDelivery == InitSpecDelivery /\ [][NextDelivery]_vars

(* SpecAddRemove: add_order and remove_order with callbacks, both client ids *)
InputsAddRemove == OrdersOf(ClientIds, {"ETH/USDT"}, {"PENDING_NEW", "NEW", "FILLED"})

NextAddRemove ==
    \/ RegisterCallback
    \/ AddOrder(InputsAddRemove)
    \/ RemoveOrder

(* SpecIndex: add_order, update_order and remove_order on orders whose      *)
(* client order id may differ from call to call                             *)
InputsIndex == OrdersOf(ClientIds, {"ETH/USDT"}, {"NEW", "PARTIALLY_FILLED", "FILLED"})

InitSpecIndex == InitOMS /\ InitVenueEmpty /\ InitRest /\ InitWebSocket

NextIndex ==
    \/ AddOrder(InputsIndex)
    \/ UpdateOrder(InputsIndex)
    \/ RemoveOrder

SpecIndex == InitSpecIndex /\ [][NextIndex]_vars

InitSpecAddRemove == InitOMS /\ InitVenueEmpty /\ InitRest /\ InitWebSocket

SpecAddRemove == InitSpecAddRemove /\ [][NextAddRemove]_vars

----------------------------------------------------------------------------
(* The venue, as the gateway reports it (binance_gateway.py).  The venue's *)
(* open orders are those it holds with status NEW or PARTIALLY_FILLED.     *)

VenueStatus == {"NEW", "PARTIALLY_FILLED", "FILLED", "CANCELED"}

VenueBooks(symbols) ==
    {v \in [OrderIds -> OrdersOf({"cA"}, symbols, VenueStatus) \cup {NoOrder}] :
        \A i \in OrderIds : v[i] = NoOrder \/ v[i].order_id = i}

gateway_get_open_orders(v, symbol) ==
    {v[id] : id \in {i \in OrderIds :
                        /\ v[i] # NoOrder
                        /\ v[i].status \in {"NEW", "PARTIALLY_FILLED"}
                        /\ (symbol = NONE \/ v[i].symbol = symbol)}}

(* get_order_status(symbol, order_id): the venue's record, parsed with the *)
(* symbol the caller passed; NoOrder when the venue does not know the id.  *)
gateway_get_order_status(v, symbol, order_id) ==
    IF v[order_id] = NoOrder THEN NoOrder ELSE [v[order_id] EXCEPT !.symbol = symbol]

IdsOf(os) == {o.order_id : o \in os}

OrderById(os, id) == CHOOSE o \in os : o.order_id = id

(* the orders in which a Python set of ids may be iterated *)
IterationsOf(S) ==
    {f \in [1..Cardinality(S) -> S] : \A i, j \in 1..Cardinality(S) : f[i] = f[j] => i = j}

----------------------------------------------------------------------------
(* order_tracker.py: OrderTracker.reconcile_orders *)

local_ids(o, symbol) == IdsOf(get_open_orders(o, symbol))

(* "for order_id in missing_locally: add_order(exchange_order)": stops at   *)
(* the first add_order that raises.  attempted collects the ids handed to   *)
(* add_order.                                                               *)
RECURSIVE AddMissing(_, _, _, _)
AddMissing(reg, n, ids, exch) ==
    IF ids = <<>> THEN reg
    ELSE LET r == add_order([reg EXCEPT !.attempted = @ \cup {Head(ids)}], n,
                            OrderById(exch, Head(ids)))
         IN  IF r.result # "ok" THEN r ELSE AddMissing(r, n, Tail(ids), exch)

(* "for order_id in common_orders": update when the statuses differ; an     *)
(* InvalidTransition raised by update_order is not caught here.             *)
RECURSIVE UpdateCommon(_, _, _, _)
UpdateCommon(reg, n, ids, exch) ==
    IF ids = <<>> THEN reg
    ELSE LET local_order == get_order(reg.orders, Head(ids))
             exchange_order == OrderById(exch, Head(ids))
         IN  IF local_order # NoOrder /\ local_order.status # exchange_order.status
             THEN LET r == update_order(reg, n, exchange_order)
                  IN  IF r.result # "ok" THEN r
                      ELSE UpdateCommon([r EXCEPT !.updates = @ + 1], n, Tail(ids), exch)
             ELSE UpdateCommon(reg, n, Tail(ids), exch)

TrackerReg(o, c) ==
    [orders |-> o, byClient |-> c, result |-> "ok", emitted |-> <<>>,
     attempted |-> {}, updates |-> 0]

(* the end of reconcile_orders: the common-orders loop, then the report *)
ReconcileFinish(r0, reg, common) ==
    \E commonSeq \in IterationsOf(common) :
        LET r == UpdateCommon([reg EXCEPT !.updates = 0], nCallbacks, commonSeq, r0.exch)
        IN  /\ orders' = r.orders
            /\ byClient' = r.byClient
            /\ rec' = [r0 EXCEPT
                         !.pc = IF r.result = "ok" THEN "returned" ELSE "raised",
                         !.changed = @ \/ r.orders # reg.orders
                                       \/ r.byClient # reg.byClient,
                         !.error = IF r.result = "ok" THEN NONE ELSE r.result,
                         !.pending = {},
                         !.report.updates_applied = @ + r.updates]
            /\ lastOp' = [op |-> "reconcile_orders", id |-> NONE, result |-> r.result,
                          emitted |-> r.emitted, ret |-> NONE]

(* What the reconcile_orders call before this one was, when nothing has    *)
(* touched the registry or the venue since it ended and it had the same    *)
(* symbol argument: "returned" (every status query answered and applied),  *)
(* "returned_unanswered", "raised", or "none".                             *)
RunBefore(symbol) ==
    IF rec.symbol # symbol \/ rec.disturbed \/ rec.error = "GatewayError"
    THEN "none"
    ELSE IF rec.pc = "returned"
         THEN (IF rec.unanswered THEN "returned_unanswered" ELSE "returned")
    ELSE IF rec.pc = "raised" THEN "raised"
    ELSE "none"

(* reconcile_orders up to its first suspension after the open-orders query: *)
(* the query, the three id sets, the report and the adds of the strays.     *)
ReconcileStart(symbol) ==
    /\ rec.pc # "querying"
    /\ \E gatewayOk \in BOOLEAN :
        IF ~gatewayOk
        THEN /\ rec' = [RecIdle EXCEPT !.pc = "raised", !.error = "GatewayError",
                                       !.symbol = symbol]
             /\ lastOp' = [op |-> "reconcile_orders", id |-> NONE,
                           result |-> "GatewayError", emitted |-> <<>>, ret |-> NONE]
             /\ UNCHANGED <<orders, byClient>>
        ELSE LET exchange_orders == gateway_get_open_orders(venue, symbol)
                 exchange_order_ids == IdsOf(exchange_orders)
                 local_order_ids == local_ids(orders, symbol)
                 missing_locally == exchange_order_ids \ local_order_ids
                 missing_on_exchange == local_order_ids \ exchange_order_ids
                 common_orders == exchange_order_ids \cap local_order_ids
                 report == [total_exchange_orders |-> Cardinality(exchange_orders),
                            total_local_orders |-> Cardinality(local_order_ids),
                            missing_locally |-> Cardinality(missing_locally),
                            missing_on_exchange |-> Cardinality(missing_on_exchange),
                            common_orders |-> Cardinality(common_orders),
                            updates_applied |-> 0]
             IN  \E addSeq \in IterationsOf(missing_locally) :
                   LET r == AddMissing(TrackerReg(orders, byClient), nCallbacks,
                                       addSeq, exchange_orders)
                       r0 == [pc |-> "querying", symbol |-> symbol,
                              exch |-> exchange_orders,
                              pending |-> missing_on_exchange,
                              common |-> common_orders,
                              tracked |-> {i \in OrderIds : orders[i] # NoOrder},
                              attempted |-> r.attempted, error |-> NONE,
                              prev |-> RunBefore(symbol),
                              unanswered |-> FALSE, disturbed |-> FALSE,
                              changed |-> r.orders # orders \/ r.byClient # byClient,
                              report |-> [report EXCEPT !.updates_applied =
                                                        Cardinality(missing_locally)]]
                   IN  IF r.result # "ok"
                       THEN /\ orders' = r.orders
                            /\ byClient' = r.byClient
                            /\ rec' = [r0 EXCEPT !.pc = "raised", !.error = r.result,
                                                 !.pending = {}, !.report = report]
                            /\ lastOp' = [op |-> "reconcile_orders", id |-> NONE,
                                          result |-> r.result, emitted |-> r.emitted,
                                          ret |-> NONE]
                       ELSE IF missing_on_exchange = {}
                       THEN ReconcileFinish(r0, r, common_orders)
                       ELSE /\ orders' = r.orders
                            /\ byClient' = r.byClient
                            /\ rec' = r0
                            /\ lastOp' = [op |-> "reconcile_orders", id |-> NONE,
                                          result |-> "pending", emitted |-> r.emitted,
                                          ret |-> NONE]
    /\ cancelSent' = {}
    /\ UNCHANGED <<nCallbacks, throwers, venue, delivery, restVars, wsVars, sym>>

(* one turn of "for order_id in missing_on_exchange": the status query and  *)
(* the update, with every exception caught; after the last one, the rest of *)
(* reconcile_orders runs without suspending.                                *)
ReconcileQuery(order_id) ==
    /\ rec.pc = "querying"
    /\ order_id \in rec.pending
    /\ \E gatewayOk \in BOOLEAN :
        LET local_order == get_order(orders, order_id)
            order_status == IF local_order = NoOrder THEN NoOrder
                            ELSE gateway_get_order_status(venue, local_order.symbol,
                                                          order_id)
            answered == local_order # NoOrder /\ gatewayOk /\ order_status # NoOrder
            upd == IF answered
                   THEN update_order(TrackerReg(orders, byClient), nCallbacks, order_status)
                   ELSE TrackerReg(orders, byClient)
            applied == answered /\ upd.result = "ok"
            r0 == [rec EXCEPT !.pending = @ \ {order_id},
                              !.unanswered = @ \/ ~applied,
                              !.changed = @ \/ (applied /\ (upd.orders # orders
                                                            \/ upd.byClient # byClient)),
                              !.report.updates_applied = IF applied THEN @ + 1 ELSE @]
            reg == IF applied THEN upd ELSE TrackerReg(orders, byClient)
        IN  IF r0.pending = {}
            THEN ReconcileFinish(r0, reg, rec.common)
            ELSE /\ orders' = reg.orders
                 /\ byClient' = reg.byClient
                 /\ rec' = r0
                 /\ lastOp' = [op |-> "reconcile_orders", id |-> order_id,
                               result |-> "pending", emitted |-> reg.emitted,
                               ret |-> NONE]
    /\ cancelSent' = {}
    /\ UNCHANGED <<nCallbacks, throwers, venue, delivery, restVars, wsVars, sym>>

----------------------------------------------------------------------------
(* order_tracker.py: OrderTracker.cancel_stray_orders.  The local ids are   *)
(* read once, after the open-orders query; every venue order not among them *)
(* gets a cancel request, which the venue accepts or refuses.               *)

stray_orders(v, o, symbol) ==
    {order \in gateway_get_open_orders(v, symbol) :
        order.order_id \notin local_ids(o, symbol)}

CancelStray(symbol) ==
    /\ rec.pc # "querying"
    /\ \E gatewayOk \in BOOLEAN :
        IF ~gatewayOk
        THEN /\ cancelSent' = {}
             /\ lastOp' = [op |-> "cancel_stray_orders", id |-> NONE,
                           result |-> "GatewayError", emitted |-> <<>>, ret |-> NONE]
             /\ UNCHANGED venue
        ELSE \E accepted \in SUBSET IdsOf(stray_orders(venue, orders, symbol)) :
               /\ cancelSent' = IdsOf(stray_orders(venue, orders, symbol))
               /\ venue' = [i \in OrderIds |->
                              IF i \in accepted
                              THEN [venue[i] EXCEPT !.status = "CANCELED"]
                              ELSE venue[i]]
               /\ lastOp' = [op |-> "cancel_stray_orders", id |-> NONE,
                             result |-> "ok", emitted |-> <<>>,
                             ret |-> Cardinality(accepted)]
    /\ rec' = RecIdle
    /\ UNCHANGED <<orders, byClient, nCallbacks, throwers, delivery, restVars, wsVars, sym>>

----------------------------------------------------------------------------
(* order_tracker.py: OrderTracker.sync_all_orders.  One pass over the       *)
(* venue's open orders of all symbols, in the order the venue lists them:   *)
(* an id the registry does not hold is added, a held id with another status *)
(* is updated through update_order, whose InvalidTransition is not caught.  *)
(* attempted collects the ids added, updates counts the updates.            *)

RECURSIVE SyncEach(_, _, _, _)
SyncEach(reg, n, ids, exch) ==
    IF ids = <<>> THEN reg
    ELSE LET local_order == get_order(reg.orders, Head(ids))
             exchange_order == OrderById(exch, Head(ids))
         IN  IF local_order = NoOrder
             THEN LET r == add_order(reg, n, exchange_order)
                  IN  IF r.result # "ok" THEN r
                      ELSE SyncEach([r EXCEPT !.attempted = @ \cup {Head(ids)}],
                                    n, Tail(ids), exch)
             ELSE IF local_order.status # exchange_order.status
             THEN LET r == update_order(reg, n, exchange_order)
                  IN  IF r.result # "ok" THEN r
                      ELSE SyncEach([r EXCEPT !.updates = @ + 1], n, Tail(ids), exch)
             ELSE SyncEach(reg, n, Tail(ids), exch)

sync_all_orders(o, c, n, v, listing) ==
    LET exchange_orders == gateway_get_open_orders(v, NONE)
        r == SyncEach(TrackerReg(o, c), n, listing, exchange_orders)
    IN  [orders |-> r.orders, byClient |-> r.byClient, result |-> r.result,
         emitted |-> r.emitted,
         report |-> [total_exchange_orders |-> Cardinality(exchange_orders),
                     total_local_orders_before |-> Cardinality(get_all_orders(o, NONE)),
                     orders_added |-> Cardinality(r.attempted),
                     orders_updated |-> r.updates,
                     total_local_orders_after |-> order_count(r.orders)]]

SyncAll ==
    /\ rec.pc # "querying"
    /\ \E gatewayOk \in BOOLEAN :
        IF ~gatewayOk
        THEN /\ lastOp' = [op |-> "sync_all_orders", id |-> NONE,
                           result |-> "GatewayError", emitted |-> <<>>, ret |-> NONE]
             /\ UNCHANGED <<orders, byClient>>
        ELSE \E listing \in IterationsOf(IdsOf(gateway_get_open_orders(venue, NONE))) :
               LET s == sync_all_orders(orders, byClient, nCallbacks, venue, listing)
               IN  /\ orders' = s.orders
                   /\ byClient' = s.byClient
                   /\ lastOp' = [op |-> "sync_all_orders", id |-> NONE,
                                 result |-> s.result, emitted |-> s.emitted,
                                 ret |-> IF s.result = "ok" THEN s.report ELSE NONE]
    /\ rec' = RecIdle
    /\ cancelSent' = {}
    /\ UNCHANGED <<nCallbacks, throwers, venue, delivery, restVars, wsVars, sym>>

----------------------------------------------------------------------------
(* SpecTracker: a venue with some book, user-data updates reaching the      *)
(* registry, reconcile_orders, sync_all_orders and cancel_stray_orders.     *)

TrackerSymbols == {"ETH/USDT"}

InputsTracker == OrdersOf({"cA"}, TrackerSymbols, OrderStatus)

InitTracker ==
    /\ InitOMS
    /\ venue \in VenueBooks(TrackerSymbols)
    /\ cancelSent = {}
    /\ rec = RecIdle
    /\ InitRest
    /\ InitWebSocket

NextTracker ==
    \/ UpdateOrder(InputsTracker)
    \/ \E symbol \in TrackerSymbols \cup {NONE} : ReconcileStart(symbol)
    \/ \E id \in OrderIds : ReconcileQuery(id)
    \/ \E symbol \in TrackerSymbols \cup {NONE} : CancelStray(symbol)
    \/ SyncAll

SpecTracker == InitTracker /\ [][NextTracker]_vars

----------------------------------------------------------------------------
(* rate_limiter.py: RateLimiter.acquire, one caller per coroutine.  A call  *)
(* runs its first turn at once; a denied turn sleeps wait_time ticks and    *)
(* the next turn starts when the sleep is over.                             *)

AcquireTurn(c, weight, is_order, before) ==
    LET a == acquire_attempt(limiter, weight, is_order)
    IN  /\ limiter' = a.limiter
        /\ acq' = [acq EXCEPT ![c] =
                     [pc |-> IF a.passed THEN "returned" ELSE "sleeping",
                      weight |-> weight, is_order |-> is_order,
                      sleep |-> a.wait_time, denied |-> ~a.passed,
                      taken |-> a.taken,
                      total |-> [request |-> before.request + a.taken.request,
                                 weight |-> before.weight + a.taken.weight,
                                 order |-> before.order + a.taken.order]]]
        /\ UNCHANGED <<registryVars, gw, wsVars, sym>>

Acquire(c, weight, is_order) ==
    /\ acq[c].pc # "sleeping"
    /\ limiter.request_count + Cardinality({d \in Callers : acq[d].pc = "sleeping"})
         < MaxAcquires
    /\ AcquireTurn(c, weight, is_order, NoTokens)

AcquireRetry(c) ==
    /\ acq[c].pc = "sleeping"
    /\ acq[c].sleep = 0
    /\ AcquireTurn(c, acq[c].weight, acq[c].is_order, acq[c].total)

(* one tick of time.time(): every bucket is one tick further from its last  *)
(* refill, every sleeper one tick closer to waking                          *)
Tick ==
    /\ limiter' = [limiter EXCEPT
                     !.request_bucket.elapsed = Min(@ + 1, limiter.request_bucket.capacity),
                     !.weight_bucket.elapsed = Min(@ + 1, limiter.weight_bucket.capacity),
                     !.order_bucket.elapsed = Min(@ + 1, limiter.order_bucket.capacity),
                     !.uptime = Min(@ + 1, MaxUptime)]
    /\ acq' = [c \in Callers |->
                 IF acq[c].pc = "sleeping" /\ acq[c].sleep > 0
                 THEN [acq[c] EXCEPT !.sleep = @ - 1] ELSE acq[c]]
    /\ UNCHANGED <<registryVars, gw, wsVars, sym>>

InitSpecLimiter == InitOMS /\ InitVenueEmpty /\ InitRest /\ InitWebSocket

NextLimiter ==
    \/ \E c \in Callers, weight \in 1..WeightCapacity, is_order \in BOOLEAN :
          Acquire(c, weight, is_order)
    \/ \E c \in Callers : AcquireRetry(c)
    \/ Tick

SpecLimiter == InitSpecLimiter /\ [][NextLimiter]_vars

(* SpecBurst: acquire(1, False) calls only, up to MaxBurst of them *)
AcquireBurst(c) ==
    /\ acq[c].pc # "sleeping"
    /\ limiter.request_count + Cardinality({d \in Callers : acq[d].pc = "sleeping"})
         < MaxBurst
    /\ AcquireTurn(c, 1, FALSE, NoTokens)

InitSpecBurst == InitOMS /\ InitVenueEmpty /\ InitRest /\ InitWebSocket

NextBurst ==
    \/ \E c \in Callers : AcquireBurst(c)
    \/ \E c \in Callers : AcquireRetry(c)
    \/ Tick

SpecBurst == InitSpecBurst /\ [][NextBurst]_vars

(* SpecHeavy: a weight bucket that takes longer than max_wait to fill (as   *)
(* the venue's, which fills in 60 s), light and heavy requests              *)
InitSpecHeavy ==
    /\ InitOMS /\ InitVenueEmpty /\ InitWebSocket
    /\ limiter = [RateLimiter EXCEPT !.weight_bucket = RequestBucket(HeavyWeightCapacity)]
    /\ acq = [c \in Callers |-> AcquireIdle]
    /\ gw = GatewayIdle

NextHeavy ==
    \/ \E c \in Callers, weight \in {1, HeavyWeightCapacity}, is_order \in BOOLEAN :
          Acquire(c, weight, is_order)
    \/ \E c \in Callers : AcquireRetry(c)
    \/ Tick

SpecHeavy == InitSpecHeavy /\ [][NextHeavy]_vars

(* SpecContend: callers that call acquire again and again, as the tasks of *)
(* the bot do for every REST call.  _request_count and the tokens a call    *)
(* took over its turns only count; they are kept up to MaxAcquires and per  *)
(* turn, so that the calls need not end.  A sleeper's next turn comes when  *)
(* its sleep is over and time goes on: both are fair.  New calls are not.   *)
ContendTurn(c, weight, is_order) ==
    LET a == acquire_attempt(limiter, weight, is_order)
    IN  /\ limiter' = [a.limiter EXCEPT !.request_count = Min(@, MaxAcquires)]
        /\ acq' = [acq EXCEPT ![c] =
                     [pc |-> IF a.passed THEN "returned" ELSE "sleeping",
                      weight |-> weight, is_order |-> is_order,
                      sleep |-> a.wait_time, denied |-> ~a.passed,
                      taken |-> a.taken, total |-> a.taken]]
        /\ UNCHANGED <<registryVars, gw, wsVars, sym>>

ContendAcquire(c, weight, is_order) ==
    /\ acq[c].pc # "sleeping"
    /\ ContendTurn(c, weight, is_order)

ContendRetry(c) ==
    /\ acq[c].pc = "sleeping"
    /\ acq[c].sleep = 0
    /\ ContendTurn(c, acq[c].weight, acq[c].is_order)

InitSpecContend == InitOMS /\ InitVenueEmpty /\ InitRest /\ InitWebSocket

NextContend ==
    \/ \E c \in Callers, weight \in 1..WeightCapacity, is_order \in BOOLEAN :
          ContendAcquire(c, weight, is_order)
    \/ \E c \in Callers : ContendRetry(c)
    \/ Tick

SpecContend ==
    /\ InitSpecContend
    /\ [][NextContend]_vars
    /\ WF_vars(Tick)
    /\ \A c \in Callers : WF_vars(ContendRetry(c))

(* the same with the calls of SpecLimiter, at most MaxAcquires of them *)
SpecLimiterFair ==
    /\ InitSpecLimiter
    /\ [][NextLimiter]_vars
    /\ WF_vars(Tick)
    /\ \A c \in Callers : WF_vars(AcquireRetry(c))

----------------------------------------------------------------------------
(* binance_gateway.py under utils/retry.py: a REST call of the gateway.    *)
(* The wrapper runs the method body; the body sends the request with the   *)
(* python-binance client and maps what comes back.                         *)

GatewayConnect ==
    /\ ~gw.client
    /\ gw' = [gw EXCEPT !.client = TRUE]
    /\ LET c == connect(ws, named, user)
       IN  ws' = c.ws /\ named' = c.named /\ user' = c.user
    /\ UNCHANGED <<registryVars, limiter, acq, feed, sym>>

(* "await self.ws_manager.disconnect()" and then "self.client = None" *)
GatewayDisconnect ==
    /\ gw.client
    /\ LET d == disconnect(ws, named, user)
       IN  /\ ws' = d.ws /\ user' = d.user
           /\ named' = [d.named EXCEPT !.op = "gateway_disconnect"]
    /\ feed' = NoFeed
    /\ gw' = [gw EXCEPT !.client = FALSE]
    /\ UNCHANGED <<registryVars, limiter, acq, sym>>

RestCall(op, args) ==
    /\ gw.pc # "sleeping"
    /\ \E response \in WireResponses, accepts \in BOOLEAN :
          gw' = futures_create_order(
                    retry_attempt([GatewayIdle EXCEPT !.client = gw.client,
                                                      !.op = op,
                                                      !.args = args,
                                                      !.connected = gw.client,
                                                      !.valid = local_checks(op, args)],
                                  0, response),
                    response, accepts)
    /\ UNCHANGED <<registryVars, limiter, acq, wsVars, sym>>

RetryWake ==
    /\ gw.pc = "sleeping"
    /\ \E response \in WireResponses, accepts \in BOOLEAN :
          gw' = futures_create_order(retry_attempt(gw, gw.attempt + 1, response),
                                     response, accepts)
    /\ UNCHANGED <<registryVars, limiter, acq, wsVars, sym>>

InitSpecGateway == InitOMS /\ InitVenueEmpty /\ InitRest /\ InitWebSocket

NextGateway ==
    \/ GatewayConnect
    \/ GatewayDisconnect
    \/ \E op \in RestOps : \E args \in RestArgs(op) : RestCall(op, args)
    \/ RetryWake

SpecGateway == InitSpecGateway /\ [][NextGateway]_vars

----------------------------------------------------------------------------
(* websocket_manager.py: the market-data stream of one manager.  Streams   *)
(* are subscribed, connect() starts _market_data_loop, and the loop runs:  *)
(* pc is "top" at the head of "while self._running", "connected" inside    *)
(* "async for message in ws", "backoff" in the sleep of the transport      *)
(* handler and "backoff_unexpected" in the sleep of the last handler.      *)
(* failures counts the transport failures since the last connect; waited   *)
(* is the delay the sleep in progress was given; feed holds the frames of  *)
(* the connection that is open and the callback invocations they led to.   *)

Subscribe(stream_name) ==
    /\ ~ws.running
    /\ stream_name \notin ws.subscriptions
    /\ ws' = [ws EXCEPT !.subscriptions = @ \cup {stream_name}]
    /\ named' = [named EXCEPT !.op = "subscribe"]
    /\ UNCHANGED <<registryVars, restVars, sym, user, feed>>

Connect ==
    /\ ~ws.running
    /\ LET c == connect(ws, named, user)
       IN  ws' = c.ws /\ named' = c.named /\ user' = c.user
    /\ UNCHANGED <<registryVars, restVars, sym, feed>>

TransportFailure(w) ==
    [w EXCEPT !.is_connected = FALSE,
              !.reconnections = @ + 1,
              !.failures = @ + 1,
              !.url = {},
              !.pc = IF w.running THEN "backoff" ELSE "top",
              !.waited = IF w.running THEN w.reconnect_delay ELSE @]

(* the head of the loop up to the outcome of websockets.connect(url), the   *)
(* outcome being one of those the venue and the network are taken to give   *)
LoopAttempt(outcomes) ==
    /\ ws.pc = "top"
    /\ IF ~ws.running \/ ws.subscriptions = {}
       THEN ws' = [ws EXCEPT !.pc = "none"] /\ UNCHANGED feed
       ELSE \E outcome \in outcomes :
              CASE outcome = "connected" ->
                     /\ ws' = [ws EXCEPT !.pc = "connected", !.is_connected = TRUE,
                                         !.reconnect_delay = INITIAL_RECONNECT_DELAY,
                                         !.failures = 0,
                                         !.url = ws.subscriptions,
                                         !.market_ws = "unnamed"]
                     /\ feed' = NoFeed
                [] outcome = "transport_error" ->
                     /\ ws.reconnections < MaxReconnections
                     /\ ws' = TransportFailure(ws)
                     /\ UNCHANGED feed
                [] outcome = "unexpected_error" ->
                     /\ ws' = [ws EXCEPT !.pc = "backoff_unexpected",
                                         !.waited = ws.reconnect_delay]
                     /\ UNCHANGED feed
    /\ UNCHANGED <<registryVars, restVars, sym, named, user>>

LoopConnect == LoopAttempt({"connected", "transport_error", "unexpected_error"})

(* one frame under "async for": the handler runs; an exception that left    *)
(* it would reach "except Exception" of the loop, which sleeps              *)
HandleMarketMessage(message) ==
    /\ ws.pc = "connected"
    /\ Len(feed.frames) < MaxFrames
    /\ \E throws \in BOOLEAN :
          LET outcome == _handle_market_message_outcome(ws.subscriptions, message, throws)
          IN  /\ feed' = [frames |-> Append(feed.frames, message),
                          calls |-> deliver(feed.calls,
                                            _handle_market_message(ws.subscriptions,
                                                                   message)),
                          outcomes |-> Append(feed.outcomes, outcome)]
              /\ ws' = IF outcome = "raised"
                       THEN [ws EXCEPT !.pc = "backoff_unexpected", !.url = {},
                                       !.waited = ws.reconnect_delay]
                       ELSE ws
    /\ UNCHANGED <<registryVars, restVars, sym, named, user>>

(* the socket fails under "async for": ConnectionClosed reaches the handler *)
ConnectionLost ==
    /\ ws.pc = "connected"
    /\ ws.reconnections < MaxReconnections
    /\ ws' = TransportFailure(ws)
    /\ feed' = NoFeed
    /\ UNCHANGED <<registryVars, restVars, sym, named, user>>

(* the socket is closed in order: "async for" ends and the loop goes round *)
ConnectionEnded ==
    /\ ws.pc = "connected"
    /\ ws' = [ws EXCEPT !.pc = "top", !.url = {}]
    /\ feed' = NoFeed
    /\ UNCHANGED <<registryVars, restVars, sym, named, user>>

(* asyncio.sleep(self._reconnect_delay) is over *)
LoopWake ==
    /\ ws.pc \in {"backoff", "backoff_unexpected"}
    /\ ws' = [ws EXCEPT !.pc = "top",
                        !.waited = 0,
                        !.reconnect_delay = IF ws.pc = "backoff"
                                            THEN next_reconnect_delay(@) ELSE @]
    /\ UNCHANGED <<registryVars, restVars, sym, named, user, feed>>

----------------------------------------------------------------------------
(* websocket_manager.py: the user-data stream.  subscribe_user_data stores  *)
(* the listen key and the callback and, when the manager runs, starts       *)
(* _user_data_loop and _keep_alive_listen_key; connect() starts them when   *)
(* the key is already there.  The loop sleeps self._reconnect_delay, the    *)
(* attribute the market loop maintains, and writes neither the delay nor    *)
(* the statistics.                                                          *)

SubscribeUserData ==
    /\ ~user.listen_key
    /\ user.extra < MaxExtraUserTasks /\ user.extra_keepalive < MaxExtraUserTasks
    /\ user' = subscribe_user_data(ws, user)
    /\ UNCHANGED <<registryVars, restVars, sym, named, ws, feed>>

(* "except (ConnectionClosed, WebSocketException, OSError)" of the user loop *)
UserTransportFailure(u) ==
    [u EXCEPT !.failures = @ + 1,
              !.total = @ + 1,
              !.pc = IF ws.running THEN "backoff" ELSE "top",
              !.waited = IF ws.running THEN ws.reconnect_delay ELSE @]

(* the head of "while self._running and self._listen_key" up to the outcome *)
(* of websockets.connect(url)                                               *)
UserLoopConnect ==
    /\ user.pc = "top"
    /\ IF ~ws.running \/ ~user.listen_key
       THEN user' = [user EXCEPT !.pc = "none"]
       ELSE \E outcome \in {"connected", "transport_error", "unexpected_error"} :
              CASE outcome = "connected" ->
                     user' = [user EXCEPT !.pc = "connected", !.failures = 0]
                [] outcome = "transport_error" ->
                     /\ user.total < MaxUserFailures
                     /\ user' = UserTransportFailure(user)
                [] outcome = "unexpected_error" ->
                     user' = [user EXCEPT !.pc = "backoff_unexpected",
                                          !.waited = ws.reconnect_delay]
    /\ UNCHANGED <<registryVars, restVars, sym, named, ws, feed>>

(* the user socket fails under "async for" *)
UserConnectionLost ==
    /\ user.pc = "connected"
    /\ user.total < MaxUserFailures
    /\ user' = [UserTransportFailure(user) EXCEPT !.drops = @ + 1]
    /\ UNCHANGED <<registryVars, restVars, sym, named, ws, feed>>

(* asyncio.sleep(self._reconnect_delay) of the user loop is over *)
UserLoopWake ==
    /\ user.pc \in {"backoff", "backoff_unexpected"}
    /\ user' = [user EXCEPT !.pc = "top", !.waited = 0]
    /\ UNCHANGED <<registryVars, restVars, sym, named, ws, feed>>

(* _keep_alive_listen_key: asyncio.sleep(LISTEN_KEY_REFRESH_INTERVAL) is    *)
(* over; the task logs and goes round, and no REST call is made.            *)
KeepAliveWake ==
    /\ user.keepalive = "sleeping"
    /\ user' = [user EXCEPT
                  !.key_age = Min(@ + LISTEN_KEY_REFRESH_INTERVAL, LISTEN_KEY_TTL),
                  !.keepalive = IF ws.running /\ user.listen_key
                                THEN "sleeping" ELSE "none"]
    /\ UNCHANGED <<registryVars, restVars, sym, named, ws, feed>>

(* subscribe_user_data called when a listen key is set already *)
SubscribeUserDataAgain ==
    /\ user.listen_key
    /\ user.extra < MaxExtraUserTasks /\ user.extra_keepalive < MaxExtraUserTasks
    /\ user' = subscribe_user_data(ws, user)
    /\ UNCHANGED <<registryVars, restVars, sym, named, ws, feed>>

(* a further user loop finds "while self._running and self._listen_key"     *)
(* false at the head of its loop                                            *)
ExtraUserLoopExit ==
    /\ user.extra > 0
    /\ ~ws.running \/ ~user.listen_key
    /\ user' = [user EXCEPT !.extra = @ - 1]
    /\ UNCHANGED <<registryVars, restVars, sym, named, ws, feed>>

(* a further keepalive task finds its loop condition false after its sleep *)
ExtraKeepAliveExit ==
    /\ user.extra_keepalive > 0
    /\ ~ws.running \/ ~user.listen_key
    /\ user' = [user EXCEPT !.extra_keepalive = @ - 1]
    /\ UNCHANGED <<registryVars, restVars, sym, named, ws, feed>>

(* SpecUserStream: both loops of one manager, no frames *)
InitSpecUserStream == InitOMS /\ InitVenueEmpty /\ InitRest /\ InitWebSocket

NextUserStream ==
    \/ Subscribe("ethusdt@kline_1m")
    \/ SubscribeUserData
    \/ Connect
    \/ LoopConnect
    \/ ConnectionLost
    \/ LoopWake
    \/ UserLoopConnect
    \/ UserConnectionLost
    \/ UserLoopWake
    \/ KeepAliveWake

SpecUserStream == InitSpecUserStream /\ [][NextUserStream]_vars

InitSpecMarketStream == InitOMS /\ InitVenueEmpty /\ InitRest /\ InitWebSocket

NextMarketStream ==
    \/ \E stream_name \in StreamNames : Subscribe(stream_name)
    \/ Connect
    \/ LoopConnect
    \/ \E message \in MarketFrames : HandleMarketMessage(message)
    \/ ConnectionLost
    \/ ConnectionEnded
    \/ LoopWake

SpecMarketStream == InitSpecMarketStream /\ [][NextMarketStream]_vars

----------------------------------------------------------------------------
(* websocket_manager.py: the calls that change the registry of a running    *)
(* manager, and the loop of the task _restart_market_data_loop starts.      *)
(* The task connect() starts is the loop of ws.pc; it has no name.  The     *)
(* task the restart starts is named; named.pc is its place in the same      *)
(* _market_data_loop, named.url the streams of the URL it is connected to.  *)
(* Both loops write self._market_ws, self._is_connected, the delay and the  *)
(* statistics of the one manager.                                           *)

(* subscribe_kline / subscribe_trade / subscribe_book_ticker on a running   *)
(* manager: the registry entry is written, then the restart                 *)
SubscribeRunning(stream_name) ==
    /\ ws.running
    /\ LET r == _restart_market_data_loop(
                   [ws EXCEPT !.subscriptions = @ \cup {stream_name}], named)
       IN  /\ ws' = r.ws
           /\ named' = [r.named EXCEPT !.op = "subscribe"]
           /\ feed' = IF r.ws.pc = ws.pc THEN feed ELSE NoFeed
    /\ UNCHANGED <<registryVars, restVars, sym, user>>

Unsubscribe(stream_name) ==
    /\ stream_name \in ws.subscriptions
    /\ LET w == [ws EXCEPT !.subscriptions = @ \ {stream_name}]
           r == IF ws.running
                THEN _restart_market_data_loop(w, named)
                ELSE [ws |-> w, named |-> named]
       IN  /\ ws' = r.ws
           /\ named' = [r.named EXCEPT !.op = "unsubscribe"]
           /\ feed' = IF r.ws.pc = ws.pc THEN feed ELSE NoFeed
    /\ UNCHANGED <<registryVars, restVars, sym, user>>

(* unsubscribe_all(): the registry, the user callback and the listen key    *)
(* are cleared; no task and no socket is touched                            *)
UnsubscribeAll ==
    /\ ws' = [ws EXCEPT !.subscriptions = {}]
    /\ user' = [user EXCEPT !.listen_key = FALSE]
    /\ named' = [named EXCEPT !.op = "unsubscribe_all"]
    /\ UNCHANGED <<registryVars, restVars, sym, feed>>

Disconnect ==
    /\ LET d == disconnect(ws, named, user)
       IN  ws' = d.ws /\ named' = d.named /\ user' = d.user
    /\ feed' = NoFeed
    /\ UNCHANGED <<registryVars, restVars, sym>>

(* "except (ConnectionClosed, WebSocketException, OSError)" in the named task *)
NamedTransportFailure ==
    /\ ws.reconnections < MaxReconnections
    /\ ws' = [ws EXCEPT !.is_connected = FALSE, !.reconnections = @ + 1]
    /\ named' = [named EXCEPT !.pc = IF ws.running THEN "backoff" ELSE "top",
                              !.url = {}]

(* the head of the loop of the named task up to the outcome of              *)
(* websockets.connect(url)                                                  *)
NamedLoopAttempt(outcomes) ==
    /\ named.pc = "top"
    /\ IF ~ws.running \/ ws.subscriptions = {}
       THEN named' = [named EXCEPT !.pc = "none"] /\ UNCHANGED ws
       ELSE \E outcome \in outcomes :
              CASE outcome = "connected" ->
                     /\ ws' = [ws EXCEPT !.is_connected = TRUE,
                                         !.reconnect_delay = INITIAL_RECONNECT_DELAY,
                                         !.market_ws = "named"]
                     /\ named' = [named EXCEPT !.pc = "connected",
                                               !.url = ws.subscriptions]
                [] outcome = "transport_error" -> NamedTransportFailure
                [] outcome = "unexpected_error" ->
                     /\ named' = [named EXCEPT !.pc = "backoff_unexpected"]
                     /\ UNCHANGED ws
    /\ UNCHANGED <<registryVars, restVars, sym, user, feed>>

NamedLoopWake ==
    /\ named.pc \in {"backoff", "backoff_unexpected"}
    /\ ws' = [ws EXCEPT !.reconnect_delay = IF named.pc = "backoff"
                                            THEN next_reconnect_delay(@) ELSE @]
    /\ named' = [named EXCEPT !.pc = "top"]
    /\ UNCHANGED <<registryVars, restVars, sym, user, feed>>

(* In the restart specifications the venue accepts a connection or the      *)
(* attempt fails with an error outside the transport errors; an open        *)
(* socket stays open until the program closes it.                           *)
RestartOutcomes == {"connected", "unexpected_error"}

RestartLoopConnect == LoopAttempt(RestartOutcomes)

NamedLoopConnect == NamedLoopAttempt(RestartOutcomes)

InitSpecRestart == InitOMS /\ InitVenueEmpty /\ InitRest /\ InitWebSocket

NextRestart ==
    \/ \E stream_name \in StreamNames : Subscribe(stream_name)
    \/ SubscribeUserData
    \/ Connect
    \/ GatewayConnect
    \/ \E stream_name \in StreamNames : SubscribeRunning(stream_name)
    \/ \E stream_name \in StreamNames : Unsubscribe(stream_name)
    \/ UnsubscribeAll
    \/ Disconnect
    \/ GatewayDisconnect
    \/ RestartLoopConnect
    \/ LoopWake
    \/ NamedLoopConnect
    \/ NamedLoopWake
    \/ UserLoopConnect
    \/ UserLoopWake

SpecRestart == InitSpecRestart /\ [][NextRestart]_vars

(* The event loop runs every task that is ready: a loop at its head or at   *)
(* the end of its sleep moves on.  What the venue does to an open socket    *)
(* is not the program's to schedule.                                        *)
(* exchange_config.py: a canonical symbol is denormalized for a venue and   *)
(* the venue's symbol normalized again                                      *)
InitSpecSymbols ==
    /\ InitOMS /\ InitVenueEmpty /\ InitRest
    /\ ws = WebSocketManager /\ feed = NoFeed /\ user = UserStream /\ named = NoTask
    /\ \E symbol \in CanonicalSymbols, exchange_type \in ExchangeType :
          sym = [SymbolIdle EXCEPT !.symbol = symbol, !.exchange_type = exchange_type,
                                   !.pc = "input"]

Denormalize ==
    /\ sym.pc = "input"
    /\ sym' = [sym EXCEPT !.pc = "wire",
                          !.wire = denormalize_symbol(sym.symbol, sym.exchange_type)]
    /\ UNCHANGED <<registryVars, restVars, wsVars>>

Normalize ==
    /\ sym.pc = "wire"
    /\ sym' = [sym EXCEPT !.pc = "done",
                          !.result = normalize_symbol(sym.wire, sym.exchange_type)]
    /\ UNCHANGED <<registryVars, restVars, wsVars>>

NextSymbols == Denormalize \/ Normalize

SpecSymbols == InitSpecSymbols /\ [][NextSymbols]_vars

(* SpecUserTasks: the calls that start and stop the tasks of the user-data  *)
(* stream, and the steps of those tasks                                     *)
InitSpecUserTasks == InitOMS /\ InitVenueEmpty /\ InitRest /\ InitWebSocket

NextUserTasks ==
    \/ SubscribeUserData
    \/ SubscribeUserDataAgain
    \/ Connect
    \/ UnsubscribeAll
    \/ Disconnect
    \/ UserLoopConnect
    \/ UserConnectionLost
    \/ UserLoopWake
    \/ KeepAliveWake
    \/ ExtraUserLoopExit
    \/ ExtraKeepAliveExit

SpecUserTasks == InitSpecUserTasks /\ [][NextUserTasks]_vars

SpecRestartFair ==
    /\ SpecRestart
    /\ WF_vars(RestartLoopConnect)
    /\ WF_vars(LoopWake)
    /\ WF_vars(NamedLoopConnect)
    /\ WF_vars(NamedLoopWake)

----------------------------------------------------------------------------
(* the legal transitions, as the specification lists them *)
C1_Table ==
    [a \in OrderStatus |->
        IF a = "PENDING_NEW" THEN {"NEW", "REJECTED"}
        ELSE IF a = "NEW" THEN {"PARTIALLY_FILLED", "FILLED", "PENDING_CANCEL",
                                "CANCELED", "EXPIRED"}
        ELSE IF a = "PARTIALLY_FILLED" THEN {"FILLED", "PENDING_CANCEL", "CANCELED"}
        ELSE IF a = "PENDING_CANCEL" THEN {"CANCELED"}
        ELSE {}]

C2_RejectedUpdateChangesNothing ==
    [][(lastOp'.op = "update_order" /\ lastOp'.result = "InvalidTransition")
         => /\ orders' = orders
            /\ byClient' = byClient
            /\ order_count(orders') = order_count(orders)
            /\ lastOp'.emitted = <<>>]_vars

C2_Witness ==
    /\ lastOp.op = "update_order"
    /\ lastOp.result = "InvalidTransition"
    /\ lastOp.id = "777"
    /\ orders["777"] # NoOrder /\ orders["777"].status = "FILLED"
    /\ nCallbacks > 0

(* C3: reconcile_orders hands add_order exactly the venue-open orders whose *)
(* id the local registry does not hold in any status (never an id it       *)
(* already holds), and once it has returned every order the venue reported *)
(* open is found by get_order.                                             *)

C3_ReconcileInsertsExactlyUntracked ==
    (rec.pc # "idle" /\ rec.error # "GatewayError") =>
        /\ rec.attempted \cap rec.tracked = {}
        /\ (rec.pc = "returned" =>
              /\ rec.attempted = IdsOf(rec.exch) \ rec.tracked
              /\ (lastOp.op = "reconcile_orders" =>
                    \A o \in rec.exch : get_order(orders, o.order_id) # NoOrder))

(* C4: cancel_stray_orders sends a cancel request only for venue-open      *)
(* orders whose id the local registry does not hold: an order tracked in   *)
(* any status is never cancelled by it.                                    *)

C4_CancelOnlyUntracked ==
    lastOp.op = "cancel_stray_orders" =>
        \A id \in cancelSent : get_order(orders, id) = NoOrder

(* C5: after any sequence of add_order and remove_order, every tracked     *)
(* record r is what get_order(r.order_id) and                              *)
(* get_order_by_client_id(r.client_order_id) both return, and an id or     *)
(* client id of no tracked record yields nothing from either.              *)

C5_RegistryBijection ==
    /\ \A i \in OrderIds :
          orders[i] # NoOrder =>
            /\ get_order(orders, i) = orders[i]
            /\ get_order_by_client_id(orders, byClient, orders[i].client_order_id)
                 = orders[i]
    /\ \A c \in ClientIds :
          (\A i \in OrderIds : orders[i] = NoOrder \/ orders[i].client_order_id # c)
            => get_order_by_client_id(orders, byClient, c) = NoOrder

(* C6: every wire call of a gateway REST call is preceded by a completed   *)
(* acquire on the rate limiter: the wire calls the REST call has made      *)
(* never outnumber the acquires the limiter has completed.                 *)
C6_WireCallAfterAcquire ==
    gw.wire <= limiter.request_count

(* C7: a turn of acquire that is denied by some bucket removes no token    *)
(* from any bucket, so a completed acquire(weight, is_order) has removed   *)
(* in total exactly 1 request token, weight weight tokens and, if          *)
(* is_order, 1 order token.                                                *)
C7_AttemptAllOrNothing ==
    \A c \in Callers :
        /\ (acq[c].pc = "sleeping" => acq[c].taken = NoTokens)
        /\ (acq[c].pc = "returned" =>
              acq[c].total = [request |-> 1, weight |-> acq[c].weight,
                              order |-> IF acq[c].is_order THEN 1 ELSE 0])

C9_ClosedFrames ==
    SelectSeq(feed.frames,
              LAMBDA m : /\ m.framing = "combined"
                         /\ m.stream \in KlineStreams \cap ws.subscriptions
                         /\ m.data.complete
                         /\ m.data.x)

C9_KlineCalls ==
    SelectSeq(feed.calls, LAMBDA c : c.stream \in KlineStreams)

(* C9: for the kline frames a connection has delivered on a subscribed     *)
(* kline stream, the kline callback has been invoked exactly once per      *)
(* closed frame, in order, with the Candle of that frame, and never for a  *)
(* frame that is not closed.                                               *)
C9_ClosedCandleFilter ==
    /\ Len(C9_KlineCalls) = Len(C9_ClosedFrames)
    /\ \A i \in 1..Len(C9_KlineCalls) :
          /\ C9_KlineCalls[i].stream = C9_ClosedFrames[i].stream
          /\ C9_KlineCalls[i].arg =
                [type |-> "Candle", symbol |-> "ETH/USDT", interval |-> "1m",
                 open_time |-> C9_ClosedFrames[i].data.t]

C9_Witness ==
    /\ Len(feed.frames) = 2
    /\ \A i \in 1..2 : /\ feed.frames[i].framing = "combined"
                       /\ feed.frames[i].stream \in KlineStreams
                       /\ feed.frames[i].data.complete
    /\ ~feed.frames[1].data.x /\ feed.frames[1].data.t = 1
    /\ feed.frames[2].data.x /\ feed.frames[2].data.t = 2
    /\ Len(feed.calls) = 1
    /\ feed.calls[1].arg.open_time = 2

C11_SecondRunAppliesNothing ==
    (rec.prev # "none" /\ ~rec.disturbed /\ rec.pc \in {"returned", "raised"}
        /\ rec.error # "GatewayError") =>
        /\ rec.pc = "returned"
        /\ rec.report.updates_applied = 0
        /\ ~rec.changed

(* C12: once reconcile_orders has run (the registry not used meanwhile),   *)
(* every venue-open order whose id was tracked locally when it started     *)
(* carries the venue's status in the registry, whatever status it had:     *)
(* overwritten when the statuses differed, untouched when they were equal. *)
C12_CommonTakesVenueStatus ==
    (rec.pc \in {"returned", "raised"} /\ ~rec.disturbed
        /\ rec.error # "GatewayError" /\ lastOp.op = "reconcile_orders") =>
        \A id \in IdsOf(rec.exch) \cap rec.tracked :
            /\ get_order(orders, id) # NoOrder
            /\ get_order(orders, id).status = OrderById(rec.exch, id).status

(* C13: once reconcile_orders has returned with every status query it made *)
(* answered (the registry not used meanwhile), every order that was        *)
(* tracked locally when it started and is not among the venue's open       *)
(* orders carries the status the venue holds for it.                       *)
C13_AbsentOnVenueTakesQueriedStatus ==
    (rec.pc = "returned" /\ ~rec.disturbed /\ ~rec.unanswered
        /\ lastOp.op = "reconcile_orders") =>
        \A id \in rec.tracked \ IdsOf(rec.exch) :
            (get_order(orders, id) # NoOrder /\ venue[id] # NoOrder)
                => get_order(orders, id).status = venue[id].status

(* C14: after sync_all_orders, every order in the venue's open-order list   *)
(* of all symbols is in the registry with the venue's status, whatever the  *)
(* registry held before; the call returns its report.                       *)
C14_SyncAllMirrorsVenue ==
    (lastOp.op = "sync_all_orders" /\ lastOp.result # "GatewayError") =>
        /\ lastOp.result = "ok"
        /\ \A o \in gateway_get_open_orders(venue, NONE) :
              /\ get_order(orders, o.order_id) # NoOrder
              /\ get_order(orders, o.order_id).status = o.status

(* C15: update_order is idempotent on the registry: when an update was     *)
(* applied, applying the same update again raises nothing and leaves the    *)
(* stored records and both indices as the first application left them,      *)
(* also when the status is terminal.                                        *)
C15_RepeatedUpdateIdempotent ==
    (delivery.count = 2 /\ delivery.results[1] = "ok") =>
        /\ delivery.results[2] = "ok"
        /\ delivery.same

C15_Witness ==
    /\ delivery.count = 2
    /\ delivery.tracked_before
    /\ delivery.order.status = "FILLED"
    /\ delivery.results = <<"ok", "ok">>
    /\ lastOp.op = "update_order"

C17_AllCallbacksInRegistrationOrder ==
    (lastOp.op \in {"add_order", "update_order"} /\ lastOp.result = "ok") =>
        /\ Len(lastOp.emitted) = nCallbacks
        /\ \A i \in 1..nCallbacks : lastOp.emitted[i] = <<i, lastOp.id>>

C17_Witness ==
    /\ lastOp.op = "update_order"
    /\ lastOp.result = "ok"
    /\ nCallbacks = 2
    /\ 1 \in throwers
    /\ lastOp.emitted = << <<1, "778">>, <<2, "778">> >>

(* C18: add_order of an id the registry already holds fails with            *)
(* AlreadyExists and leaves the stored records, both indices and the count  *)
(* as they were, and runs no callback.                                      *)
C18_DuplicateAddChangesNothing ==
    [][(lastOp'.op = "add_order" /\ orders[lastOp'.id] # NoOrder)
         => /\ lastOp'.result = "AlreadyExists"
            /\ orders' = orders
            /\ byClient' = byClient
            /\ order_count(orders') = order_count(orders)
            /\ lastOp'.emitted = <<>>]_vars

C18_Witness ==
    /\ lastOp.op = "add_order"
    /\ lastOp.result = "AlreadyExists"
    /\ lastOp.id = "777"
    /\ orders["777"] # NoOrder /\ orders["777"].client_order_id = "cA"
    /\ byClient["cB"] = "778"
    /\ nCallbacks > 0

(* C19: get_open_orders() is exactly the tracked records with status NEW    *)
(* or PARTIALLY_FILLED, and get_open_orders(symbol) exactly those of them   *)
(* with that symbol.                                                        *)
C19_OpenOrdersExact ==
    LET tracked == {orders[i] : i \in {j \in OrderIds : orders[j] # NoOrder}}
        open == {o \in tracked : o.status \in {"NEW", "PARTIALLY_FILLED"}}
    IN  /\ get_open_orders(orders, NONE) = open
        /\ \A symbol \in Symbols :
              get_open_orders(orders, symbol) = {o \in open : o.symbol = symbol}

C19_Witness ==
    /\ orders["777"] # NoOrder /\ orders["777"].status = "PARTIALLY_FILLED"
    /\ orders["777"].symbol = "BTC/USDT"
    /\ orders["778"] # NoOrder /\ orders["778"].status = "PENDING_CANCEL"
    /\ get_open_orders(orders, NONE) = {orders["777"]}
    /\ get_open_orders(orders, "ETH/USDT") = {}

(* C20: on a connected gateway, submit_order of a LIMIT, STOP_LOSS_LIMIT or *)
(* TAKE_PROFIT_LIMIT order without price, or of a STOP_LOSS or TAKE_PROFIT  *)
(* variant without stop_price, and cancel_order or get_order_status with    *)
(* neither order_id nor client_order_id, fail with InvalidOrderError in     *)
(* their first attempt, with no wire call made and no retry.                *)
C20_FailsLocalValidation ==
    \/ /\ gw.op = "submit_order"
       /\ gw.args.order_type \in {"LIMIT", "STOP_LOSS_LIMIT", "TAKE_PROFIT_LIMIT"}
       /\ ~gw.args.price
    \/ /\ gw.op = "submit_order"
       /\ gw.args.order_type \in {"STOP_LOSS", "STOP_LOSS_LIMIT",
                                  "TAKE_PROFIT", "TAKE_PROFIT_LIMIT"}
       /\ ~gw.args.stop_price
    \/ /\ gw.op \in {"cancel_order", "get_order_status"}
       /\ ~gw.args.order_id
       /\ ~gw.args.client_order_id

C20_ValidationBeforeWire ==
    (gw.pc # "idle" /\ gw.connected /\ C20_FailsLocalValidation) =>
        /\ gw.pc = "raised"
        /\ gw.error = "InvalidOrderError"
        /\ gw.outcomes = <<"InvalidOrderError">>
        /\ gw.wire = 0
        /\ gw.attempt = 0

C20_Witness ==
    /\ gw.pc = "raised"
    /\ gw.connected
    /\ gw.op = "submit_order"
    /\ gw.args.order_type = "TAKE_PROFIT_LIMIT"
    /\ ~gw.args.price /\ gw.args.stop_price
    /\ gw.outcomes = <<"InvalidOrderError">>
    /\ gw.wire = 0

(* C21: the exception mapper follows the table: -1001, -1021, -1022 give    *)
(* TransientError; -1003 RateLimitError; -1100, -1102 PermanentError;       *)
(* -2010, -2011, -4001, -4003, -4004, -4131, -4132 InvalidOrderError; and   *)
(* a message containing "insufficient balance" gives                        *)
(* InsufficientBalanceError whatever the code.                              *)
C21_Table(code, insufficient_balance) ==
    IF insufficient_balance THEN {"InsufficientBalanceError"}
    ELSE IF code \in {-1001, -1021, -1022} THEN {"TransientError"}
    ELSE IF code = -1003 THEN {"RateLimitError"}
    ELSE IF code \in {-1100, -1102} THEN {"PermanentError"}
    ELSE IF code \in {-2010, -2011, -4001, -4003, -4004, -4131, -4132}
         THEN {"InvalidOrderError"}
    ELSE {"TransientError", "RateLimitError", "PermanentError", "InvalidOrderError",
          "InsufficientBalanceError", "ExchangeAPIError"}

C21_MapperFollowsTable ==
    (gw.outcomes # <<>> /\ gw.response.kind = "api_error") =>
        gw.outcomes[Len(gw.outcomes)]
            \in C21_Table(gw.response.code, gw.response.insufficient_balance)

(* C22: a bucket of capacity C that starts full and refills R tokens per    *)
(* second grants at most C + R*t acquires in the first t seconds, so N      *)
(* simultaneous acquire(1, false) calls are not all through before          *)
(* (N - C)/R seconds.  Here R is one token per tick.                        *)
C22_GrantsBoundedByRefill ==
    limiter.uptime < MaxUptime =>
        limiter.request_count <= RequestCapacity + limiter.uptime

C22_Witness ==
    /\ limiter.uptime = 1
    /\ limiter.request_count = 3
    /\ \E c \in Callers :
          /\ acq[c].pc = "returned"
          /\ acq[c].weight = 1 /\ ~acq[c].is_order
          /\ acq[c].total.request = 1

(* C23: the user-data loop follows the reconnection protocol of the         *)
(* market-data loop: the delay it waits after its i-th failure in a row is  *)
(* min(120, 2^(i-1)) seconds whatever the market stream did (a successful  *)
(* connect starts the count of failures again, so the next failure waits 1  *)
(* second), and each drop of its connection is counted in the               *)
(* reconnections counter.                                                   *)
C23_UserLoopSameProtocol ==
    /\ (user.pc = "backoff" =>
          user.waited = IF 2 ^ (user.failures - 1) < 120
                        THEN 2 ^ (user.failures - 1) ELSE 120)
    /\ ws.reconnections >= user.drops

(* C24: while the user-data stream runs with a listen key, the key is       *)
(* refreshed through REST at least every 30 minutes, so the time since the  *)
(* venue last saw it created or refreshed never reaches the 60 minutes of   *)
(* its expiry.                                                              *)
C24_ListenKeyKeptAlive ==
    (ws.running /\ user.listen_key /\ user.keepalive = "sleeping") =>
        user.key_age < LISTEN_KEY_TTL

(* C25: when a subscribe of a market stream has completed on a running      *)
(* manager, the market task that ran before it is cancelled and its socket  *)
(* closed, and until the next call of the manager every open market         *)
(* connection is one whose URL names exactly the streams of the registry.   *)
(* The task connect() started is the unnamed one; a restart replaces the    *)
(* named one by construction of the new task.                               *)
C25_RestartReplacesRunningTask ==
    (ws.running /\ named.op = "subscribe") =>
        /\ ws.pc = "none"
        /\ ws.url = {}
        /\ (named.pc = "connected" => named.url = ws.subscriptions)

(* C26: whenever the market registry is empty on a running manager, the     *)
(* market-data loops eventually exit and their connections are closed (or   *)
(* a stream is subscribed again, or the manager is stopped), by the steps   *)
(* of the program alone.                                                    *)
C26_EmptyRegistryStopsLoop ==
    (ws.running /\ ws.subscriptions = {}) ~>
        \/ ws.pc = "none" /\ named.pc = "none" /\ ws.url = {} /\ named.url = {}
        \/ ws.subscriptions # {}
        \/ ~ws.running

(* the invocations the frames lead to when each frame is handled, whatever  *)
(* became of the frames before it                                           *)
RECURSIVE C27_Expected(_)
C27_Expected(frames) ==
    IF frames = <<>> THEN <<>>
    ELSE C27_Expected(SubSeq(frames, 1, Len(frames) - 1))
         \o _handle_market_message(ws.subscriptions, frames[Len(frames)])

(* C27: no failure while a frame is handled stops the market loop or        *)
(* reaches a subscriber.  After frames of which some were not valid JSON,   *)
(* some failed to parse and some had a callback that raised, no exception   *)
(* has left the handler, the loop is still reading from its connection,     *)
(* every frame has led to the invocations it leads to on its own, and no    *)
(* callback was invoked with the null value.                                *)
C27_FrameFailuresContained ==
    /\ \A i \in 1..Len(feed.outcomes) : feed.outcomes[i] # "raised"
    /\ (feed.frames # <<>> => ws.pc = "connected")
    /\ feed.calls = C27_Expected(feed.frames)
    /\ \A i \in 1..Len(feed.calls) : feed.calls[i].arg # None

C27_Witness ==
    /\ ws.pc = "connected"
    /\ Len(feed.frames) = 2
    /\ feed.outcomes[1] \in {"callback_error", "decode_error"}
    /\ feed.outcomes[2] = "returned"
    /\ feed.frames[2].framing = "combined"
    /\ feed.calls # <<>>
    /\ feed.calls[Len(feed.calls)].stream = feed.frames[2].stream

(* the frames a connection delivered on one stream, and the invocations of  *)
(* that stream's callback                                                   *)
C28_FramesOf(stream_name) ==
    SelectSeq(feed.frames,
              LAMBDA m : m.framing = "combined" /\ m.stream = stream_name)

C28_CallsOf(stream_name) ==
    SelectSeq(feed.calls, LAMBDA c : c.stream = stream_name)

RECURSIVE C28_Events(_)
C28_Events(frames) ==
    IF frames = <<>> THEN <<>>
    ELSE _handle_market_message(ws.subscriptions, frames[1])
         \o C28_Events(SubSeq(frames, 2, Len(frames)))

C29_DisconnectStopsEveryTask ==
    /\ ~ws.running =>
          /\ ws.pc = "none" /\ named.pc = "none"
          /\ user.pc = "none" /\ user.keepalive = "none"
          /\ user.extra = 0 /\ user.extra_keepalive = 0
          /\ ws.url = {} /\ named.url = {}
          /\ ~ENABLED (\E message \in MarketFrames : HandleMarketMessage(message))
    /\ named.op = "gateway_disconnect" => ~gw.client /\ ~ws.running

C29_Witness ==
    /\ named.op = "gateway_disconnect"
    /\ ~gw.client
    /\ {"market", "named", "user", "keepalive"} \subseteq named.cancelled

(* C30: the reconnections counter goes up by exactly one in every step in   *)
(* which an established market-data connection of the running manager is    *)
(* dropped, whether closed in order or failed, and changes in no other      *)
(* step.                                                                    *)
C30_CounterCountsDrops ==
    [][LET dropped == ws.running /\ ws.pc = "connected" /\ ws'.pc # "connected"
       IN  ws'.reconnections = IF dropped THEN ws.reconnections + 1
                               ELSE ws.reconnections]_vars

(* C31: for every venue of the registry and every canonical symbol s,      *)
(* normalize_symbol(denormalize_symbol(s, V), V) returns s.                 *)
C31_SymbolRoundTrip ==
    sym.pc = "done" => sym.result = [kind |-> "ok", value |-> sym.symbol]

(* C32: when a connection of the running market-data loop ends, by a       *)
(* closure in order or by a transport error, the loop goes into a sleep of  *)
(* the current reconnect_delay before it attempts the next connection; it   *)
(* is never back at the head of the loop straight from a connection.        *)
C32_WaitBeforeEveryReconnect ==
    [][(ws.running /\ ws.pc = "connected" /\ ws'.pc # "connected") =>
          /\ ws'.pc \in {"backoff", "backoff_unexpected"}
          /\ ws'.waited = ws.reconnect_delay]_vars

(* the waits of the buckets that deny a turn of weight and is_order *)
C33_Deficits(weight, is_order) ==
    LET rb == refill(limiter.request_bucket)
        wb == refill(limiter.weight_bucket)
        ob == refill(limiter.order_bucket)
    IN  (IF rb.tokens < 1 THEN {1 - rb.tokens} ELSE {})
        \cup (IF wb.tokens < weight THEN {weight - wb.tokens} ELSE {})
        \cup (IF is_order /\ ob.tokens < 1 THEN {1 - ob.tokens} ELSE {})

(* C33: a denied turn of acquire puts its caller to sleep for min(30, the   *)
(* largest (n - tokens) / refill_rate over the buckets that denied); the    *)
(* caller takes no turn before that sleep is over, and then runs the whole  *)
(* turn again; no sleep is longer than 30.                                  *)
C33_DeniedSleepsClampedMax ==
    [][\A c \in Callers :
         /\ ((acq[c].pc # "sleeping" \/ acq[c].sleep = 0)
               /\ acq'[c].pc = "sleeping" /\ acq'[c] # acq[c]) =>
                LET d == C33_Deficits(acq'[c].weight, acq'[c].is_order)
                IN  /\ d # {}
                    /\ acq'[c].sleep = Min(Max(d), 30)
         /\ (acq[c].pc = "sleeping" /\ acq[c].sleep > 0) =>
                \/ acq'[c] = acq[c]
                \/ acq'[c] = [acq[c] EXCEPT !.sleep = @ - 1]
         /\ acq'[c].sleep <= 30]_vars

C33_Witness ==
    \E c \in Callers :
        /\ acq[c].pc = "sleeping" /\ acq[c].denied
        /\ acq[c].weight = HeavyWeightCapacity
        /\ acq[c].sleep = 30
        /\ refill(limiter.weight_bucket).tokens = 0
        /\ limiter.weight_bucket.elapsed = 0

(* C34: for an order that is in the registry before and after a step, a    *)
(* change of its stored status is an edge of the transition table, whoever  *)
(* made the update (a WebSocket event, a REST result, reconcile_orders or   *)
(* sync_all_orders); a stored terminal status does not change.              *)
C34_StoredStatusFollowsTable ==
    [][\A i \in OrderIds :
         (orders[i] # NoOrder /\ orders'[i] # NoOrder
            /\ orders'[i].status # orders[i].status) =>
              /\ orders'[i].status \in VALID_TRANSITIONS[orders[i].status]
              /\ ~is_terminal_state(orders[i].status)]_vars

(* an update to another status has just been refused for an order stored   *)
(* with a terminal status                                                   *)
C34_Witness ==
    /\ lastOp.op = "update_order"
    /\ lastOp.result = "InvalidTransition"
    /\ orders[lastOp.id] # NoOrder
    /\ is_terminal_state(orders[lastOp.id].status)

(* C35: at most one market-data loop task is alive at any time, and so at   *)
(* most one connection carries the market streams, after any sequence of    *)
(* connect, subscribe, unsubscribe and disconnect calls.                    *)
C35_OneMarketLoop ==
    /\ ~(ws.pc # "none" /\ named.pc # "none")
    /\ ~(ws.pc = "connected" /\ named.pc = "connected")

(* C36: at most one user-data loop task and at most one keepalive task are  *)
(* alive at any time, after any sequence of connect, subscribe_user_data,   *)
(* unsubscribe_all and disconnect calls.                                    *)
C36_OneUserLoopOneKeepAlive ==
    /\ (IF user.pc # "none" THEN 1 ELSE 0) + user.extra <= 1
    /\ (IF user.keepalive # "none" THEN 1 ELSE 0) + user.extra_keepalive <= 1

(* C37: after any sequence of add_order, update_order and remove_order the  *)
(* client-order-id index agrees with the primary index: a record returned   *)
(* by get_order_by_client_id(c) has client_order_id c, and every tracked    *)
(* record is what get_order_by_client_id returns for its client_order_id.   *)
C37_ClientIndexConsistent ==
    /\ \A c \in ClientIds :
          LET r == get_order_by_client_id(orders, byClient, c)
          IN  r # NoOrder => r.client_order_id = c
    /\ \A i \in OrderIds :
          orders[i] # NoOrder =>
            get_order_by_client_id(orders, byClient, orders[i].client_order_id)
              = orders[i]

(* C38: a reconcile_orders call whose open-orders query succeeded returns   *)
(* its report: the only error that ends a call is the failure of that       *)
(* query, whatever the registry holds and whatever updates reach it while   *)
(* the status queries are in flight.                                        *)
C38_ReconcileAlwaysReports ==
    rec.pc = "raised" => rec.error = "GatewayError"

(* C39: one call to submit_order places at most one order at the venue,     *)
(* also when the venue placed the order of an attempt, answered that        *)
(* attempt with a transient error, and the retry wrapper sent the request   *)
(* again.                                                                    *)
C39_AtMostOneOrderPerCall ==
    gw.op = "submit_order" => gw.accepted <= 1

(* C40: acquire(weight, is_order) never raises and, while time goes on, a   *)
(* call whose weight is at most the weight bucket's capacity returns after  *)
(* finitely many turns, also when other callers acquire at the same time.   *)
C40_AcquireReturns ==
    \A c \in Callers : (acq[c].pc = "sleeping") ~> (acq[c].pc = "returned")

=============================================================================
